---- MODULE Spec2Model ----
(***************************************************************************)
(* A model of lib/parsers/bcf_hype.py: the SFS container reader            *)
(* (SFSTreeItem, SFS_reader) and the pure python hypermap decoder          *)
(* (BCF_reader.py_parse_hypermap).                                         *)
(*                                                                         *)
(* Two specifications share the module:                                    *)
(*   SpecSFS  the construction of a container and the reads on it;         *)
(*   SpecDec  one decode of a hypermap stream.                             *)
(* The physical file is kept byte for byte; the chunk sizes of SpecSFS are *)
(* scaled down (usable_chunk of 4 and 16 bytes instead of 4064) so that    *)
(* multi-chunk files and chained pointer tables stay small.                *)
(***************************************************************************)
EXTENDS Integers, Sequences, FiniteSets, TLC

VARIABLES
    chunksize,    \* SFS_reader.chunksize
    disk,         \* the physical file: chunk k is disk[k+1] = [next, body]
    table,        \* the entry table as unpacked by strct_unp, one record per item
    pc,           \* position of SFS_reader.__init__ / _setup_vfs
    items,        \* temp_item_list: the SFSTreeItem objects
    compression,  \* SFS_reader.compression ("unset" while the attribute is missing)
    paths,        \* the paths list of _setup_vfs / _flat_items_to_dict
    vfs,          \* SFS_reader.vfs, flattened: path -> node
    ret,          \* the call observed on the constructed reader: its arguments and outcome
    written,      \* what the writer of the container stored: [layout, ents]
    hmap,         \* the hypermap the writer stored: header values and pixel records
    call,         \* the arguments of py_parse_hypermap
    dec,          \* the local variables of py_parse_hypermap and its position
    bcf,          \* the BCF_reader object and the position of bcf_hyperspectra
    thr,          \* two threads that decode: their arguments, locals and positions
    fh            \* the file objects that the block generators of the threads opened

sfsvars == <<chunksize, disk, table, pc, items, compression, paths, vfs, ret, written>>
decvars == <<hmap, call, dec>>
bcfvars == <<bcf, thr, fh>>
vars == <<sfsvars, decvars, bcfvars>>

(***************************************************************************)
(* Bounds of the model.                                                    *)
(***************************************************************************)
MaxChunks == 2        \* a file holds at most MaxChunks whole chunks plus a remainder
MaxItems == 2         \* entries of an entry table
MaxPathLen == 3       \* characters of a path given to get_file
MaxPathItems == 16    \* elements a list can take before the memory is exhausted

(***************************************************************************)
(* Constants of the file format, as the code writes them.                  *)
(***************************************************************************)
ChunkHeadOffset == 280     \* 0x118: start of chunk 0, place of the next-chunk field
PayloadOffset == 312       \* 0x138: start of the payload of chunk 0
ChunkHeadLen == 32         \* chunksize - usable_chunk
ChunkSizes == {36, 48}     \* the chunk sizes of the modelled containers

Min(a, b) == IF a < b THEN a ELSE b
Max(a, b) == IF a > b THEN a ELSE b

\* -(-a // b) of the code: python's floor division, negated twice
CeilDiv(a, b) == -((-a) \div b)

\* strct_unp('<I', b)[0]
U32LE(b) == b[1] + 256 * b[2] + 65536 * b[3] + 16777216 * b[4]

\* the four bytes of a u32, little endian (what a writer stores)
LE32(v) == <<v % 256, (v \div 256) % 256, (v \div 65536) % 256, (v \div 16777216) % 256>>

\* seq[a:b] of python for 0 <= a: the elements a..b-1 (0-based), clipped
Slice(s, a, b) == SubSeq(s, a + 1, Min(b, Len(s)))

RECURSIVE Concat(_)
Concat(ss) ==
    IF ss = <<>> THEN <<>>
    ELSE IF Len(ss) = 1 THEN ss[1]
    ELSE Concat(SubSeq(ss, 1, Len(ss) \div 2))
         \o Concat(SubSeq(ss, (Len(ss) \div 2) + 1, Len(ss)))

(***************************************************************************)
(* The physical file.                                                      *)
(***************************************************************************)
FileLen(d, cs) == ChunkHeadOffset + Len(d) * cs

\* the byte at absolute address a
ByteAt(d, cs, a) ==
    IF a < ChunkHeadOffset THEN 0
    ELSE LET k == (a - ChunkHeadOffset) \div cs
             w == (a - ChunkHeadOffset) % cs
         IN  IF w < 4 THEN LE32(d[k + 1].next)[w + 1]
             ELSE IF w < ChunkHeadLen THEN 0
             ELSE d[k + 1].body[w - ChunkHeadLen + 1]

\* fn.seek(a); fn.read(n): at most n bytes, fewer at the end of the file
ReadAt(d, cs, a, n) ==
    LET stop == Min(a + n, FileLen(d, cs))
    IN  [i \in 1..Max(stop - a, 0) |-> ByteAt(d, cs, a + i - 1)]

(***************************************************************************)
(* Well-formed containers: what a writer of the format lays down for an    *)
(* entry table.  Every file gets its pointer-table pages and then its data *)
(* chunks; the layout decides where the chunks lie in the physical file.   *)
(***************************************************************************)
Usable(cs) == cs - ChunkHeadLen

NData(cs, size) == CeilDiv(size, Usable(cs))
NPages(cs, size) == Max(1, CeilDiv(NData(cs, size), Usable(cs) \div 4))
NChunksOf(cs, e) == IF e.is_dir THEN 0 ELSE NPages(cs, e.size) + NData(cs, e.size)

\* logical number of the first chunk of entry i (chunk 0 holds the entry table)
RECURSIVE Base(_, _, _)
Base(cs, ents, i) ==
    IF i = 1 THEN 1 ELSE Base(cs, ents, i - 1) + NChunksOf(cs, ents[i - 1])

TotalChunks(cs, ents) == Base(cs, ents, Len(ents) + 1)

\* physical chunk of logical chunk l: ascending or descending allocation
Phys(layout, n, l) == IF layout = "fwd" THEN l ELSE n - 1 - l

\* byte j (0-based) of the payload of file i; the bytes stay below 128 so that
\* every u32 read from the file fits the integers of the model checker
UcSize == 64
FileByte(i, e, j) ==
    IF e.aacs /\ j < 16
    THEN (<<65, 65, 67, 83>> \o LE32(UcSize) \o <<0, 0, 0, 0>> \o LE32(i))[j + 1]
    ELSE (17 * i + 7 * j + 3) % 127

Payload(i, e) == [j \in 1..e.size |-> FileByte(i, e, j - 1)]

PadTo(s, n, fill) == s \o [j \in 1..(n - Len(s)) |-> fill]

\* the physical chunk k of the container
ChunkAt(cs, layout, ents, k) ==
    LET n == TotalChunks(cs, ents)
        l == Phys(layout, n, k)
        u == Usable(cs)
    IN  IF l = 0 THEN [next |-> 0, body |-> PadTo(<<>>, u, 0)]
        ELSE LET i == CHOOSE x \in 1..Len(ents) :
                              Base(cs, ents, x) <= l /\ l < Base(cs, ents, x + 1)
                 e == ents[i]
                 r == l - Base(cs, ents, i)
                 np == NPages(cs, e.size)
                 nd == NData(cs, e.size)
                 first == Base(cs, ents, i) + np
             IN  IF r < np
                 THEN [next |-> IF r + 1 < np THEN Phys(layout, n, l + 1) ELSE 0,
                       body |-> PadTo(
                           Concat([q \in 1..(Min((r + 1) * (u \div 4), nd) - r * (u \div 4)) |->
                                     LE32(Phys(layout, n, first + r * (u \div 4) + q - 1))]),
                           u, 0)]
                 ELSE [next |-> 0,
                       body |-> PadTo(Slice(Payload(i, e), (r - np) * u, (r - np + 1) * u),
                                      u, 126)]

MkDisk(cs, layout, ents) ==
    [k \in 1..TotalChunks(cs, ents) |-> ChunkAt(cs, layout, ents, k - 1)]

\* the entry table the reader unpacks: '<iQQQQIi176s?3s256s32s' per item
MkTable(cs, layout, ents) ==
    [i \in 1..Len(ents) |->
        [ptp |-> IF ents[i].is_dir THEN 0
                 ELSE Phys(layout, TotalChunks(cs, ents), Base(cs, ents, i)),
         size |-> ents[i].size,
         parent |-> ents[i].parent,
         is_dir |-> ents[i].is_dir,
         name |-> ents[i].name]]

(***************************************************************************)
(* SFSTreeItem                                                             *)
(***************************************************************************)
\* SFSTreeItem._calc_pointer_table_size
CalcPointerTableSize(cs, size) == -((-size) \div (cs - ChunkHeadLen))

\* the pages of a chained pointer table: the loop of _fill_pointer_table
RECURSIVE TablePages(_, _, _, _)
TablePages(d, cs, next_chunk, n) ==
    IF n = 0 THEN <<>>
    ELSE LET link == ReadAt(d, cs, cs * next_chunk + ChunkHeadOffset, 4)
         IN  ReadAt(d, cs, cs * next_chunk + ChunkHeadOffset + 4 + 28, cs - ChunkHeadLen)
             \o (IF Len(link) < 4 THEN <<>>
                 ELSE TablePages(d, cs, U32LE(link), n - 1))

\* np.fromstring(b, dtype='uint32'): one value per 4 bytes
FromStringU32(b) == [i \in 1..(Len(b) \div 4) |-> U32LE(SubSeq(b, 4 * i - 3, 4 * i))]

\* _fill_pointer_table that reads the first pointer-table chunk only
FillPointerTableOnePage(d, cs, ptp, size_in_chunks) ==
    LET usable_chunk == cs - ChunkHeadLen
        temp_table == ReadAt(d, cs, cs * ptp + PayloadOffset, usable_chunk)
        raw == FromStringU32(Slice(temp_table, 0, size_in_chunks * 4))
    IN  [i \in 1..Len(raw) |-> raw[i] * cs + PayloadOffset]

\* SFSTreeItem._fill_pointer_table: the pointers array
FillPointerTable(d, cs, ptp, size_in_chunks) ==
    LET usable_chunk == cs - ChunkHeadLen
        n_of_chunks == -((-size_in_chunks) \div (usable_chunk \div 4))
        temp_table == IF n_of_chunks > 1
                      THEN TablePages(d, cs, ptp, n_of_chunks)
                      ELSE ReadAt(d, cs, cs * ptp + PayloadOffset, usable_chunk)
        raw == FromStringU32(Slice(temp_table, 0, size_in_chunks * 4))
    IN  [i \in 1..Len(raw) |-> raw[i] * cs + PayloadOffset]

\* SFSTreeItem.__init__
SFSTreeItem(d, cs, e) ==
    LET sic == CalcPointerTableSize(cs, e.size)
    IN  [size |-> e.size, parent |-> e.parent, is_dir |-> e.is_dir, name |-> e.name,
         size_in_chunks |-> sic,
         pointers |-> IF e.is_dir THEN <<>> ELSE FillPointerTable(d, cs, e.ptp, sic),
         cmeta |-> FALSE, uncompressed_blk_size |-> 0, no_of_compr_blk |-> 0]

\* SFSTreeItem.read_piece: the bytes, or the IndexError of pointers[idx]
ReadPiece(d, cs, it, offset, length) ==
    LET usable_chunk == cs - ChunkHeadLen
        n == Len(it.pointers)
        fb_idx == offset \div usable_chunk
        fbo == offset % usable_chunk
        lb_idx == (offset + length) \div usable_chunk
        lbco == (offset + length) % usable_chunk
    IN  IF fb_idx # lb_idx
        THEN IF fb_idx >= n \/ (lbco > 0 /\ lb_idx >= n)
             THEN [err |-> "IndexError", data |-> <<>>]
             ELSE [err |-> "",
                   data |-> ReadAt(d, cs, it.pointers[fb_idx + 1] + fbo, usable_chunk - fbo)
                            \o Concat([i \in 1..(Min(lb_idx, n) - (fb_idx + 1)) |->
                                         ReadAt(d, cs, it.pointers[fb_idx + 1 + i], usable_chunk)])
                            \o (IF lbco > 0
                                THEN ReadAt(d, cs, it.pointers[lb_idx + 1], lbco)
                                ELSE <<>>)]
        ELSE IF fb_idx >= n
             THEN [err |-> "IndexError", data |-> <<>>]
             ELSE [err |-> "",
                   data |-> ReadAt(d, cs, it.pointers[fb_idx + 1] + fbo, length)]

\* SFSTreeItem._iter_read_chunks: what the (k+1)-th next() of the generator does
IterReadChunks(d, cs, it, k) ==
    LET usable_chunk == cs - ChunkHeadLen
        last == it.size_in_chunks
        last_stuff == it.size % usable_chunk
    IN  IF k < last - 1
        THEN [kind |-> "yield", data |-> ReadAt(d, cs, it.pointers[k + 1], usable_chunk)]
        ELSE IF k = Max(last - 1, 0)
        THEN IF Len(it.pointers) = 0
             THEN [kind |-> "IndexError", data |-> <<>>]
             ELSE [kind |-> "yield",
                   data |-> ReadAt(d, cs,
                                   it.pointers[IF last - 1 < 0 THEN Len(it.pointers) ELSE last],
                                   IF last_stuff # 0 THEN last_stuff ELSE usable_chunk)]
        ELSE [kind |-> "StopIteration", data |-> <<>>]

\* SFSTreeItem.get_iter_and_properties: (chunk_size, number_of_chunks) of the triple
GetIterAndProperties(cs, compr, it) ==
    IF compr = "None"
    THEN [err |-> "", mode |-> "None", size_chnk |-> cs - ChunkHeadLen, count |-> it.size_in_chunks]
    ELSE IF compr = "zlib"
    THEN [err |-> "", mode |-> "zlib", size_chnk |-> it.uncompressed_blk_size,
          count |-> it.no_of_compr_blk]
    ELSE [err |-> "RuntimeError", mode |-> compr, size_chnk |-> 0, count |-> 0]

\* b''.join(generator): every chunk of _iter_read_chunks, or the error it raises
RECURSIVE JoinChunks(_, _, _, _)
JoinChunks(d, cs, it, k) ==
    LET r == IterReadChunks(d, cs, it, k)
    IN  IF r.kind = "StopIteration" THEN [err |-> "", data |-> <<>>]
        ELSE IF r.kind # "yield" THEN [err |-> r.kind, data |-> <<>>]
        ELSE LET rest == JoinChunks(d, cs, it, k + 1)
             IN  IF rest.err # "" THEN rest
                 ELSE [err |-> "", data |-> r.data \o rest.data]

\* SFSTreeItem.get_as_BytesIO_string (uncompressed containers)
GetAsBytesIOString(d, cs, it) == JoinChunks(d, cs, it, 0)

\* SFSTreeItem.setup_compression_metadata
SetupCompressionMetadata(d, cs, it) ==
    IF Len(it.pointers) = 0 THEN [err |-> "IndexError", item |-> it]
    ELSE LET head == ReadAt(d, cs, it.pointers[1], 16)
         IN  IF Len(head) < 16 THEN [err |-> "struct.error", item |-> it]
             ELSE IF U32LE(SubSeq(head, 1, 4)) = 1396916545   \* 0x53434141
             THEN [err |-> "",
                   item |-> [it EXCEPT !.cmeta = TRUE,
                                       !.uncompressed_blk_size = U32LE(SubSeq(head, 5, 8)),
                                       !.no_of_compr_blk = U32LE(SubSeq(head, 13, 16))]]
             ELSE [err |-> "ValueError", item |-> it]

(***************************************************************************)
(* SFS_reader                                                              *)
(***************************************************************************)
Last(s) == s[Len(s)]

\* lst[i] of python for a list of length n: 1-based place, 0 when out of range
PyIndex(n, i) == IF 0 <= i /\ i < n THEN i + 1
                 ELSE IF i < 0 /\ -i <= n THEN n + i + 1
                 ELSE 0

\* the first file of temp_item_list, 0 when there is none
FirstFile(its) ==
    IF \E i \in 1..Len(its) : ~its[i].is_dir
    THEN CHOOSE i \in 1..Len(its) : ~its[i].is_dir /\ \A j \in 1..(i - 1) : its[j].is_dir
    ELSE 0

\* _check_the_compresion without its break: the last file decides
CheckTheCompresionNoBreak(d, cs, its) ==
    LET files == {i \in 1..Len(its) : ~its[i].is_dir}
        c == IF files = {} THEN 0 ELSE CHOOSE i \in files : \A j \in files : j <= i
    IN  IF c = 0 THEN [err |-> "", compression |-> "unset"]
        ELSE IF \E i \in files : Len(its[i].pointers) = 0
        THEN [err |-> "IndexError", compression |-> "unset"]
        ELSE IF ReadAt(d, cs, its[c].pointers[1], 4) = <<65, 65, 67, 83>>
        THEN [err |-> "", compression |-> "zlib"]
        ELSE [err |-> "", compression |-> "None"]

\* SFS_reader._check_the_compresion: the value of self.compression afterwards
CheckTheCompresion(d, cs, its) ==
    LET c == FirstFile(its)
    IN  IF c = 0 THEN [err |-> "", compression |-> "unset"]
        ELSE IF Len(its[c].pointers) = 0 THEN [err |-> "IndexError", compression |-> "unset"]
        ELSE IF ReadAt(d, cs, its[c].pointers[1], 4) = <<65, 65, 67, 83>>
        THEN [err |-> "", compression |-> "zlib"]
        ELSE [err |-> "", compression |-> "None"]

\* the loop of _setup_vfs over temp_item_list calling setup_compression_metadata
RECURSIVE SetupAll(_, _, _, _)
SetupAll(d, cs, its, i) ==
    IF i > Len(its) THEN [err |-> "", items |-> its]
    ELSE IF its[i].is_dir THEN SetupAll(d, cs, its, i + 1)
    ELSE LET r == SetupCompressionMetadata(d, cs, its[i])
         IN  IF r.err # "" THEN [err |-> r.err, items |-> its]
             ELSE SetupAll(d, cs, [its EXCEPT ![i] = r.item], i + 1)

\* one pass of the for loop inside the while loop of _flat_items_to_dict
RECURSIVE ResolveFrom(_, _)
ResolveFrom(ps, f) ==
    IF f > Len(ps) THEN [err |-> "", paths |-> ps]
    ELSE IF Last(ps[f]) = -1 THEN ResolveFrom(ps, f + 1)
    ELSE LET k == PyIndex(Len(ps), Last(ps[f]))
         IN  IF k = 0 THEN [err |-> "IndexError", paths |-> ps]
             ELSE IF Len(ps[f]) + Len(ps[k]) > MaxPathItems
             THEN [err |-> "MemoryError", paths |-> ps]
             ELSE ResolveFrom([ps EXCEPT ![f] = @ \o ps[k]], f + 1)

AllResolved(ps) == \A f \in 1..Len(ps) : Last(ps[f]) = -1

Reverse(s) == [i \in 1..Len(s) |-> s[Len(s) + 1 - i]]

RootName == <<"root">>

\* names[p[r]] for every r, then p.reverse()
NamedPath(its, p) ==
    LET names == [j \in 1..Len(its) |-> its[j].name] \o <<RootName>>
    IN  Reverse([r \in 1..Len(p) |-> names[PyIndex(Len(names), p[r])]])

IsPrefix(a, b) == Len(a) <= Len(b) /\ SubSeq(b, 1, Len(a)) = a

\* the body of the loop "for i in range(len(temp_item_list))" for one item:
\* descend along the path making missing directories, then set the item
InsertItem(m, it, idx, p) ==
    IF \E r \in 1..Len(p) : SubSeq(p, 1, r) \in DOMAIN m /\ m[SubSeq(p, 1, r)].kind = "file"
    THEN [err |-> "TypeError", map |-> m]
    ELSE LET key == Append(p, it.name)
             made == {SubSeq(p, 1, r) : r \in 1..Len(p)}
             kept == {q \in DOMAIN m : ~IsPrefix(key, q)}
         IN  [err |-> "",
              map |-> [q \in kept \cup made \cup {key} |->
                          IF q = key
                          THEN IF it.is_dir THEN [kind |-> "dir", idx |-> 0]
                                            ELSE [kind |-> "file", idx |-> idx]
                          ELSE IF q \in kept THEN m[q]
                          ELSE [kind |-> "dir", idx |-> 0]]]

RECURSIVE InsertAll(_, _, _, _)
InsertAll(m, its, ps, i) ==
    IF i > Len(its) THEN [err |-> "", map |-> m]
    ELSE LET r == InsertItem(m, its[i], i, NamedPath(its, ps[i]))
         IN  IF r.err # "" THEN r ELSE InsertAll(r.map, its, ps, i + 1)

EmptyMap == [q \in {} |-> [kind |-> "dir", idx |-> 0]]

\* _flat_items_to_dict after its while loop, and "self.vfs = dict_tree['root']"
FlatItemsToDict(its, ps) ==
    LET r == InsertAll(EmptyMap, its, ps, 1)
    IN  IF r.err # "" THEN r
        ELSE IF <<RootName>> \notin DOMAIN r.map THEN [err |-> "KeyError", map |-> r.map]
        ELSE r

\* path.split('/')
RECURSIVE SplitAcc(_, _, _)
SplitAcc(s, cur, acc) ==
    IF s = <<>> THEN Append(acc, cur)
    ELSE IF Head(s) = "/" THEN SplitAcc(Tail(s), <<>>, Append(acc, cur))
    ELSE SplitAcc(Tail(s), Append(cur, Head(s)), acc)

Split(s) == SplitAcc(s, <<>>, <<>>)

\* the loop "for i in path.split('/'): item = item[i]" of get_file
RECURSIVE Descend(_, _, _)
Descend(m, at, comps) ==
    IF comps = <<>> THEN [err |-> "", node |-> m[at], at |-> at]
    ELSE IF m[at].kind = "file" THEN [err |-> "TypeError", node |-> m[at], at |-> at]
    ELSE IF Append(at, Head(comps)) \notin DOMAIN m
    THEN [err |-> "KeyError", node |-> m[at], at |-> at]
    ELSE Descend(m, Append(at, Head(comps)), Tail(comps))

\* SFS_reader.get_file
GetFile(m, path) == Descend(m, <<RootName>>, Split(path))

(***************************************************************************)
(* The containers and the calls of the model.                              *)
(***************************************************************************)
NameChars == <<"a", "b", "c", "d">>

RECURSIVE ReachesRoot(_, _, _)
ReachesRoot(sh, i, fuel) ==
    IF sh[i].parent = -1 THEN TRUE
    ELSE IF fuel = 0 THEN FALSE
    ELSE ReachesRoot(sh, sh[i].parent + 1, fuel - 1)

\* entry tables that are trees: every parent is a directory of the table
Shapes(n) ==
    {sh \in [1..n -> [is_dir : BOOLEAN, parent : -1..(n - 1)]] :
        \A i \in 1..n :
            /\ sh[i].parent # -1 => sh[sh[i].parent + 1].is_dir
            /\ ReachesRoot(sh, i, n)}

\* sizes around the chunk boundaries
Sizes(cs) == {q * Usable(cs) + r : q \in 0..MaxChunks, r \in {0, 1, Usable(cs) - 1}}

\* the first file takes every size; the files after it are empty or of two chunks
Choices(cs, first) ==
    {c \in [size : IF first THEN Sizes(cs) ELSE {0, Usable(cs) + 1}, aacs : BOOLEAN] :
        c.aacs => c.size >= 16}

FirstFileOf(sh) ==
    IF \E i \in DOMAIN sh : ~sh[i].is_dir
    THEN CHOOSE i \in DOMAIN sh : ~sh[i].is_dir /\ \A j \in 1..(i - 1) : sh[j].is_dir
    ELSE 0

Tables(cs) ==
    UNION {UNION {
        {[i \in 1..n |-> [is_dir |-> sh[i].is_dir, parent |-> sh[i].parent,
                          name |-> <<NameChars[i]>>,
                          size |-> IF sh[i].is_dir THEN 0 ELSE f[i].size,
                          aacs |-> IF sh[i].is_dir THEN FALSE ELSE f[i].aacs]] :
            f \in {g \in [1..n -> Choices(cs, TRUE) \cup Choices(cs, FALSE)] :
                     \A i \in 1..n :
                        IF sh[i].is_dir THEN g[i] = [size |-> 0, aacs |-> FALSE]
                        ELSE g[i] \in Choices(cs, i = FirstFileOf(sh))}}
        : sh \in Shapes(n)} : n \in 1..MaxItems}

\* offsets and ends of the ranges read: around the chunk boundaries and the end
Positions(cs, size) ==
    {q \in 0..size : q % Usable(cs) \in {0, 1, 2, Usable(cs) - 1} \/ q = size}

PathChars == {"a", "b", "/"}

Paths == UNION {[1..n -> PathChars] : n \in 0..MaxPathLen}

\* the constructed reader is immutable: a behaviour observes one call on it
NoCall == [op |-> "none"]

\* a container that holds no hypermap
NoMap == [height |-> 0, width |-> 0]

InitSFS ==
    \E cs \in ChunkSizes, layout \in {"fwd", "rev"} :
      \E ents \in Tables(cs) :
        /\ chunksize = cs
        /\ disk = MkDisk(cs, layout, ents)
        /\ table = MkTable(cs, layout, ents)
        /\ written = [layout |-> layout, ents |-> ents]
        /\ pc = "start"
        /\ items = <<>>
        /\ compression = "unset"
        /\ paths = <<>>
        /\ vfs = EmptyMap
        /\ ret = NoCall
        /\ hmap = NoMap
        /\ call = NoCall
        /\ dec = NoCall
        /\ bcf = NoCall
        /\ thr = NoCall
        /\ fh = NoCall

\* _setup_vfs, lines 327-334: the items and the list of their parents
ReadTree ==
    /\ pc = "start"
    /\ items' = [i \in 1..Len(table) |-> SFSTreeItem(disk, chunksize, table[i])]
    /\ paths' = [i \in 1..Len(table) |-> <<table[i].parent>>]
    /\ pc' = "compression"
    /\ UNCHANGED <<chunksize, disk, table, compression, vfs, ret, written>>
    /\ UNCHANGED <<decvars, bcfvars>>

\* _setup_vfs, lines 336-340: the compression of the container and of its files
SetupCompression ==
    /\ pc = "compression"
    /\ LET c == CheckTheCompresion(disk, chunksize, items)
           m == SetupAll(disk, chunksize, items, 1)
       IN  IF c.err # ""
           THEN /\ pc' = "failed" /\ ret' = [op |-> "init", err |-> c.err]
                /\ UNCHANGED <<items, compression>>
           ELSE IF c.compression = "unset"
           THEN /\ pc' = "failed" /\ ret' = [op |-> "init", err |-> "AttributeError"]
                /\ UNCHANGED <<items, compression>>
           ELSE IF c.compression = "zlib" /\ m.err # ""
           THEN /\ pc' = "failed" /\ ret' = [op |-> "init", err |-> m.err]
                /\ compression' = c.compression
                /\ UNCHANGED items
           ELSE /\ pc' = "resolve"
                /\ compression' = c.compression
                /\ items' = IF c.compression = "zlib" THEN m.items ELSE items
                /\ UNCHANGED ret
    /\ UNCHANGED <<chunksize, disk, table, paths, vfs, written>>
    /\ UNCHANGED <<decvars, bcfvars>>

\* one pass of the while loop of _flat_items_to_dict
ResolvePass ==
    /\ pc = "resolve"
    /\ ~AllResolved(paths)
    /\ LET r == ResolveFrom(paths, 1)
       IN  IF r.err # ""
           THEN /\ pc' = "failed" /\ ret' = [op |-> "init", err |-> r.err]
                /\ UNCHANGED paths
           ELSE /\ paths' = r.paths
                /\ UNCHANGED <<pc, ret>>
    /\ UNCHANGED <<chunksize, disk, table, items, compression, vfs, written>>
    /\ UNCHANGED <<decvars, bcfvars>>

\* the rest of _flat_items_to_dict and the end of _setup_vfs
BuildTree ==
    /\ pc = "resolve"
    /\ AllResolved(paths)
    /\ LET r == FlatItemsToDict(items, paths)
       IN  IF r.err # ""
           THEN /\ pc' = "failed" /\ ret' = [op |-> "init", err |-> r.err]
                /\ UNCHANGED vfs
           ELSE /\ pc' = "ready" /\ vfs' = r.map
                /\ UNCHANGED ret
    /\ UNCHANGED <<chunksize, disk, table, items, compression, paths, written>>
    /\ UNCHANGED <<decvars, bcfvars>>

Files == {i \in 1..Len(items) : ~items[i].is_dir}

\* a call of get_file
CallGetFile ==
    /\ pc = "ready"
    /\ ret = NoCall
    /\ \E path \in Paths :
        LET r == GetFile(vfs, path)
        IN  ret' = [op |-> "get_file", path |-> path, err |-> r.err, node |-> r.node,
                    at |-> r.at]
    /\ UNCHANGED <<chunksize, disk, table, pc, items, compression, paths, vfs, written>>
    /\ UNCHANGED <<decvars, bcfvars>>

\* a call of read_piece on a file, the range inside the file
CallReadPiece ==
    /\ pc = "ready"
    /\ ret = NoCall
    /\ \E i \in Files :
        \E offset \in Positions(chunksize, items[i].size) :
          \E stop \in {q \in Positions(chunksize, items[i].size) : q >= offset} :
            LET r == ReadPiece(disk, chunksize, items[i], offset, stop - offset)
            IN  ret' = [op |-> "read_piece", item |-> i, offset |-> offset,
                        length |-> stop - offset, err |-> r.err, data |-> r.data]
    /\ UNCHANGED <<chunksize, disk, table, pc, items, compression, paths, vfs, written>>
    /\ UNCHANGED <<decvars, bcfvars>>

\* a call of get_iter_and_properties on a file: the generator is made, not yet run
CallGetIter ==
    /\ pc = "ready"
    /\ ret = NoCall
    /\ \E i \in Files :
        LET g == GetIterAndProperties(chunksize, compression, items[i])
        IN  ret' = [op |-> "iter", item |-> i, err |-> g.err, mode |-> g.mode,
                    size_chnk |-> g.size_chnk, count |-> g.count,
                    k |-> 0, out |-> <<>>,
                    state |-> IF g.err = "" THEN "running" ELSE g.err]
    /\ UNCHANGED <<chunksize, disk, table, pc, items, compression, paths, vfs, written>>
    /\ UNCHANGED <<decvars, bcfvars>>

\* next() on the generator of _iter_read_chunks
IterNext ==
    /\ pc = "ready"
    /\ ret.op = "iter"
    /\ ret.state = "running"
    /\ ret.mode = "None"
    /\ LET r == IterReadChunks(disk, chunksize, items[ret.item], ret.k)
       IN  ret' = IF r.kind = "yield"
                  THEN [ret EXCEPT !.k = @ + 1, !.out = Append(@, r.data)]
                  ELSE [ret EXCEPT !.state = r.kind]
    /\ UNCHANGED <<chunksize, disk, table, pc, items, compression, paths, vfs, written>>
    /\ UNCHANGED <<decvars, bcfvars>>

\* a call of get_as_BytesIO_string on a file of an uncompressed container
CallGetAsBytesIO ==
    /\ pc = "ready"
    /\ ret = NoCall
    /\ compression = "None"
    /\ \E i \in Files :
        LET r == GetAsBytesIOString(disk, chunksize, items[i])
        IN  ret' = [op |-> "get_as_BytesIO_string", item |-> i, err |-> r.err,
                    data |-> r.data]
    /\ UNCHANGED <<chunksize, disk, table, pc, items, compression, paths, vfs, written>>
    /\ UNCHANGED <<decvars, bcfvars>>

NextSFS ==
    \/ ReadTree
    \/ SetupCompression
    \/ ResolvePass
    \/ BuildTree
    \/ CallGetFile
    \/ CallReadPiece
    \/ CallGetIter
    \/ IterNext
    \/ CallGetAsBytesIO

SpecSFS == InitSFS /\ [][NextSFS]_vars

(***************************************************************************)
(* What the writer stored, to compare the reader's results with.           *)
(***************************************************************************)
TruePayload(i) == Payload(i, written.ents[i])

\* absolute address of the payload of data chunk q (0-based) of file i
TrueChunkAddr(i, q) ==
    LET ents == written.ents
        l == Base(chunksize, ents, i) + NPages(chunksize, ents[i].size) + q
    IN  Phys(written.layout, TotalChunks(chunksize, ents), l) * chunksize + PayloadOffset

\* the names from the root down to entry i
RECURSIVE TruePath(_, _)
TruePath(ents, i) ==
    IF ents[i].parent = -1 THEN <<ents[i].name>>
    ELSE Append(TruePath(ents, ents[i].parent + 1), ents[i].name)

(***************************************************************************)
(* C1: for every file and every range inside it, read_piece returns        *)
(* exactly `length` bytes, the payload bytes [offset, offset+length),      *)
(* byte j lying at pointers[j div usable] + (j mod usable).                *)
(* The code raises IndexError for an empty range at the end of a file      *)
(* whose size is a multiple of usable_chunk (size 0 included).             *)
(***************************************************************************)
C1_ReadRangeIsPayload ==
    ret.op = "read_piece" =>
        /\ ret.err = ""
        /\ Len(ret.data) = ret.length
        /\ ret.data = SubSeq(TruePayload(ret.item), ret.offset + 1, ret.offset + ret.length)
        /\ \A j \in ret.offset..(ret.offset + ret.length - 1) :
              ret.data[j - ret.offset + 1] =
                  ByteAt(disk, chunksize,
                         items[ret.item].pointers[j \div Usable(chunksize) + 1]
                             + (j % Usable(chunksize)))

(***************************************************************************)
(* C2: in an uncompressed container, for every file, read_piece(0, size)   *)
(* returns exactly `size` bytes, the concatenation in order of the chunks  *)
(* of the chunk iterator (get_as_BytesIO_string joins them).               *)
(* For a file of size 0 both calls raise IndexError.                       *)
(***************************************************************************)
C2_WholeReadIsJoinedBlocks ==
    ret.op = "get_as_BytesIO_string" =>
        LET whole == ReadPiece(disk, chunksize, items[ret.item], 0, items[ret.item].size)
        IN  /\ whole.err = ""
            /\ ret.err = ""
            /\ Len(whole.data) = items[ret.item].size
            /\ whole.data = ret.data

(***************************************************************************)
(* C3: for every file of `size` bytes, size 0 and multiples of usable      *)
(* included, the uncompressed chunk iterator yields exactly                *)
(* ceil(size / usable) chunks in index order, chunk i read at pointers[i], *)
(* all of `usable` bytes but the last, which has size mod usable bytes     *)
(* when that is not 0; the count returned by get_iter_and_properties is    *)
(* the number of chunks yielded.                                           *)
(* For a file of size 0 the generator raises IndexError (pointers[-1]).    *)
(***************************************************************************)
C3_ChunkIterator ==
    (ret.op = "iter" /\ ret.mode = "None" /\ ret.state # "running") =>
        LET it == items[ret.item]
            u == Usable(chunksize)
            n == CeilDiv(it.size, u)
        IN  /\ ret.state = "StopIteration"
            /\ Len(ret.out) = n
            /\ ret.count = Len(ret.out)
            /\ \A i \in 1..n :
                  /\ Len(ret.out[i]) = IF i < n \/ it.size % u = 0 THEN u ELSE it.size % u
                  /\ ret.out[i] = ReadAt(disk, chunksize, it.pointers[i], Len(ret.out[i]))
                  /\ ret.out[i] = SubSeq(TruePayload(ret.item), (i - 1) * u + 1,
                                         (i - 1) * u + Len(ret.out[i]))

(***************************************************************************)
(* C4: after the items are constructed, every file has                     *)
(* len(pointers) = ceil(size / usable), its pointer table read from one    *)
(* chunk or from ceil(size_in_chunks / (usable / 4)) chunks chained by the *)
(* next-chunk field at 0x118, the pages concatenated in chain order:       *)
(* pointers[q] is the address of the q-th data chunk the writer stored.    *)
(***************************************************************************)
C4_PointerTableLength ==
    pc # "start" =>
        \A i \in 1..Len(items) :
            ~items[i].is_dir =>
                /\ Len(items[i].pointers) = CeilDiv(items[i].size, Usable(chunksize))
                /\ \A q \in 1..Len(items[i].pointers) :
                      items[i].pointers[q] = TrueChunkAddr(i, q - 1)

\* a file whose pointer table spans several chained chunks has been read
C4_Witness ==
    /\ pc = "ready"
    /\ \E i \in 1..Len(items) :
          /\ ~items[i].is_dir
          /\ CeilDiv(items[i].size_in_chunks, Usable(chunksize) \div 4) > 1
          /\ Len(items[i].pointers) = 3

(***************************************************************************)
(* C5: get_file splits the path on '/' and descends the tree; it fails     *)
(* with NotFound (KeyError) when a component is missing and with NotAFile  *)
(* when the last component names a directory: it never returns a           *)
(* directory.  The code returns the dict of a directory.                   *)
(***************************************************************************)
C5_GetFile ==
    ret.op = "get_file" =>
        LET comps == Split(ret.path)
            ents == written.ents
            named == {i \in 1..Len(ents) : TruePath(ents, i) = comps}
        IN  /\ named = {} => ret.err # ""
            /\ (\E i \in named : ents[i].is_dir) => ret.err # ""
            /\ ret.err = "" => ret.node.kind = "file"

(***************************************************************************)
(* C6: the compression is decided from the first file of the entry table   *)
(* (zlib iff the 4 bytes at its pointers[0] are 'AACS') and holds for      *)
(* every file.  After a successful construction it is "None" or "zlib";    *)
(* when it is zlib every file carries the parsed descriptor                *)
(* (uncompressed_blk_size, no_of_compr_blk), and the construction fails    *)
(* when a file's payload does not start with AACS.                         *)
(***************************************************************************)
C6_Compression ==
    pc \in {"resolve", "ready"} =>
        LET ents == written.ents
            first == FirstFileOf(ents)
        IN  /\ compression \in {"None", "zlib"}
            /\ first # 0
            /\ compression = "zlib" <=> ents[first].aacs
            /\ compression = "zlib" =>
                  \A i \in 1..Len(items) :
                      ~items[i].is_dir =>
                          /\ ents[i].aacs
                          /\ items[i].cmeta
                          /\ items[i].uncompressed_blk_size = UcSize
                          /\ items[i].no_of_compr_blk = i
                          /\ GetIterAndProperties(chunksize, compression, items[i])
                                 = [err |-> "", mode |-> "zlib", size_chnk |-> UcSize,
                                    count |-> i]
            /\ compression = "None" =>
                  \A i \in 1..Len(items) : ~items[i].cmeta

\* a zlib container of two files has been constructed
C6_Witness ==
    /\ pc = "ready"
    /\ compression = "zlib"
    /\ Cardinality({i \in 1..Len(items) : ~items[i].is_dir}) >= 2

(***************************************************************************)
(* HyperHeader: the estimates taken from the header of the hypermap.       *)
(***************************************************************************)
\* a choice of max_chan that lets the cutoff only shorten the header estimate
MaxChanCropOnly(cutoff, est) == IF cutoff.given THEN Min(cutoff.chan, est) ELSE est

\* the choice of max_chan, lines 1008-1011: the user's cutoff channel when it
\* is an int, otherwise HyperHeader.estimate_map_channels
MaxChan(cutoff, est) == IF cutoff.given THEN cutoff.chan ELSE est

\* the halves h of the limits 2*h + 1 that estimate_map_depth compares with
HalfLimits == {119, 127, 30719, 32767, 2013265919}

\* the dtype chosen for a roof, lines 768-794; above[h] tells whether the roof
\* is above the odd limit 2*h + 1 (0xFF is 2*127 + 1, 0xFFFF 2*32767 + 1,
\* 0xEF 2*119 + 1, 0xEFFF 2*30719 + 1, 0xEFFFFFFF 2*2013265919 + 1): the roof
\* and the widest limits do not fit the integers of the model checker.  The
\* dtype is the pair of its signedness and its width in bits.
DepthOfRoof(above, numpy_add) ==
    IF above[127]
    THEN IF above[32767]
         THEN IF numpy_add
              THEN IF above[2013265919] THEN [signed |-> TRUE, bits |-> 64]
                                        ELSE [signed |-> TRUE, bits |-> 32]
              ELSE [signed |-> FALSE, bits |-> 32]
         ELSE IF numpy_add
              THEN IF above[30719] THEN [signed |-> TRUE, bits |-> 32]
                                   ELSE [signed |-> TRUE, bits |-> 16]
              ELSE [signed |-> FALSE, bits |-> 16]
    ELSE IF numpy_add
         THEN IF above[119] THEN [signed |-> TRUE, bits |-> 16]
                            ELSE [signed |-> TRUE, bits |-> 8]
         ELSE [signed |-> FALSE, bits |-> 8]

\* whether 2 * num / den, as a real number, is above the odd limit 2*h + 1
RatioAbove(num, den, h) ==
    \/ num \div den > h
    \/ num \div den = h /\ 2 * (num % den) > den

\* an estimate that multiplies before it divides:
\* roof = 2 * downsample^2 * m / (width * height), not rounded
EstimateMapDepthMulFirst(m, width, height, downsample, for_numpy) ==
    LET above == [h \in HalfLimits |->
                     RatioAbove(downsample * downsample * m, width * height, h)]
    IN  DepthOfRoof(above, for_numpy /\ downsample > 1)

\* HyperHeader.estimate_map_depth; m is np.max(sum_eds), an unsigned 64-bit
\* number.  roof = m // width // height * 2 * downsample * downsample is
\* q * 2 * downsample^2, which is above 2*h + 1 exactly when
\* q > h \div downsample^2.
EstimateMapDepth(m, width, height, downsample, for_numpy) ==
    LET q == (m \div width) \div height
        above == [h \in HalfLimits |-> q > h \div (downsample * downsample)]
    IN  DepthOfRoof(above, for_numpy /\ downsample > 1)

\* the value an integer takes when it is stored in an array of `bits` bits,
\* read back as unsigned (the counts of the model stay below 2^31)
Wrap(v, bits) == IF bits >= 32 THEN v ELSE v % (2 ^ bits)

(***************************************************************************)
(* BCF_reader.py_parse_hypermap.  The locals of the function are the       *)
(* record s; I is the generator iter_data: the container, its chunk size   *)
(* and the SFSTreeItem of EDSDatabase/SpectrumData<index>.                 *)
(***************************************************************************)
HeadLen == 416          \* 0x1A0: offset of the first line header
PixelHeadLen == 22      \* struct '<IHHIHHHI'

\* struct.unpack of one little-endian unsigned value of Len(b) bytes
RECURSIVE ULE(_)
ULE(b) == IF b = <<>> THEN 0 ELSE Head(b) + 256 * ULE(Tail(b))

\* strct_unp('<i', b)[0]
S32LE(b) == b[1] + 256 * b[2] + 65536 * b[3]
            + 16777216 * (IF b[4] >= 128 THEN b[4] - 256 ELSE b[4])

\* the exception e leaves the function
Fail(s, e) == [s EXCEPT !.pc = "error", !.err = e]

\* a refill that takes the block before the next one of the generator again
RefillAgain(I, s) ==
    LET nb == IterReadChunks(I.d, I.cs, I.it, s.kblk - 1)
    IN  IF nb.kind # "yield" THEN Fail(s, nb.kind)
        ELSE [s EXCEPT !.size = s.size_chnk + s.size - s.offset,
                       !.buffer1 = Slice(s.buffer1, s.offset, Len(s.buffer1)) \o nb.data,
                       !.offset = 0,
                       !.kblk = @ + 1]

\* buffer1 = buffer1[offset:] + next(iter_data), with size and offset
Refill(I, s) ==
    LET nb == IterReadChunks(I.d, I.cs, I.it, s.kblk)
    IN  IF nb.kind # "yield" THEN Fail(s, nb.kind)
        ELSE [s EXCEPT !.size = s.size_chnk + s.size - s.offset,
                       !.buffer1 = Slice(s.buffer1, s.offset, Len(s.buffer1)) \o nb.data,
                       !.offset = 0,
                       !.kblk = @ + 1]

\* "if (offset + n) >= size:" followed by the refill
RefillIf(I, s, n) == IF s.offset + n >= s.size THEN Refill(I, s) ELSE s

\* buffer1[offset:offset + n]
Peek(s, n) == Slice(s.buffer1, s.offset, s.offset + n)

\* np.fromstring(data, dtype=np.uint16)
FromStringU16(b) == [i \in 1..(Len(b) \div 2) |-> b[2 * i - 1] + 256 * b[2 * i]]

\* np.bincount(arr, minlength=n)
BinCount(arr, n) ==
    LET top == IF arr = <<>> THEN 0
               ELSE 1 + CHOOSE v \in {arr[i] : i \in 1..Len(arr)} :
                            \A i \in 1..Len(arr) : arr[i] <= v
    IN  [c \in 1..Max(n, top) |-> Cardinality({i \in 1..Len(arr) : arr[i] = c - 1})]

\* the unpacking without the repeat(2) of line 1073: the bytes of the swapped
\* words themselves, less those at the positions 0 and 5 of every 6, as
\* big-endian 16-bit values, as many of the n_of_pulses as there are
Unpack12NoRepeat(data1, n_of_pulses) ==
    LET switched == [j \in 1..Len(data1) |->
                        IF j % 2 = 1 THEN (IF j < Len(data1) THEN data1[j + 1] ELSE 0)
                        ELSE data1[j - 1]]
        keep == SelectSeq([j \in 1..Len(switched) |-> j], LAMBDA j : (j - 1) % 6 \notin {0, 5})
        masked == [j \in 1..Len(keep) |-> switched[keep[j]]]
    IN  [j \in 1..Min(n_of_pulses, Len(masked) \div 2) |->
            LET be == masked[2 * j - 1] * 256 + masked[2 * j]
            IN  (IF j % 2 = 1 THEN be \div 16 ELSE be) % 4096]

\* lines 1068-1082: the 12-bit pulses of data1, n_of_pulses of them
Unpack12(data1, n_of_pulses) ==
    LET switched == [j \in 1..Len(data1) |-> IF j % 2 = 1 THEN data1[j + 1] ELSE data1[j - 1]]
        data2 == [j \in 1..(2 * Len(switched)) |-> switched[(j + 1) \div 2]]
        keep == SelectSeq([j \in 1..Len(data2) |-> j], LAMBDA j : (j - 1) % 6 \notin {0, 5})
        masked == [j \in 1..Len(keep) |-> data2[keep[j]]]
    IN  [j \in 1..n_of_pulses |->
            LET be == masked[2 * j - 1] * 256 + masked[2 * j]
            IN  (IF j % 2 = 1 THEN be \div 16 ELSE be) % 4096]

\* the number of bytes that Unpack12 can take n_of_pulses values from
Masked12Len(data1) == Cardinality({j \in 1..(2 * Len(data1)) : (j - 1) % 6 \notin {0, 5}})

\* the dict st of line 1005: the bytes of the struct letter st[n], 0 for a KeyError
StBytes(n) ==
    IF n \in {1, 2} THEN 1 ELSE IF n = 4 THEN 2 ELSE IF n = 8 THEN 4
    ELSE IF n = 16 THEN 8 ELSE 0

\* g of lines 1110-1112: the two nibbles of every byte, plus the gain
Nibbles(a, gain) ==
    [j \in 1..(2 * Len(a)) |->
        IF j % 2 = 1 THEN (a[(j + 1) \div 2] % 16) + gain
                     ELSE (a[j \div 2] \div 16) + gain]

\* the run loop with a gain of byte_width bytes: size_p / 2 bytes for
\* size_p >= 2, as wide as one value of the run
RECURSIVE RunsGainHalf(_, _, _, _)
RunsGainHalf(buf, offset, the_end, pixel) ==
    IF offset >= the_end THEN [err |-> "", offset |-> offset, pixel |-> pixel]
    ELSE LET head == Slice(buf, offset, offset + 2)
             size_p == head[1]
             channels == head[2]
             o2 == offset + 2
         IN  IF Len(head) < 2
             THEN [err |-> "struct.error", offset |-> offset, pixel |-> pixel]
             ELSE IF size_p = 0
             THEN RunsGainHalf(buf, o2, the_end, pixel \o [j \in 1..channels |-> 0])
             ELSE IF StBytes(size_p * 2) = 0
             THEN [err |-> "KeyError", offset |-> o2, pixel |-> pixel]
             ELSE LET w == StBytes(size_p)
                      gb == Slice(buf, o2, o2 + w)
                      gain == ULE(gb)
                      o3 == o2 + w
                      length == IF size_p = 1 THEN CeilDiv(channels, 2)
                                ELSE (channels * size_p) \div 2
                      a == Slice(buf, o3, o3 + length)
                  IN  IF Len(gb) # w \/ Len(a) # length
                      THEN [err |-> "struct.error", offset |-> o3, pixel |-> pixel]
                      ELSE IF size_p = 1
                      THEN RunsGainHalf(buf, o3 + length, the_end,
                                        pixel \o Slice(Nibbles(a, gain), 0, channels))
                      ELSE RunsGainHalf(buf, o3 + length, the_end,
                                        pixel \o [j \in 1..channels |->
                                                     ULE(SubSeq(a, (j - 1) * w + 1, j * w)) + gain])

\* the while loop of lines 1089-1119 over the instructively packed runs
RECURSIVE Runs(_, _, _, _)
Runs(buf, offset, the_end, pixel) ==
    IF offset >= the_end THEN [err |-> "", offset |-> offset, pixel |-> pixel]
    ELSE LET head == Slice(buf, offset, offset + 2)
             size_p == head[1]
             channels == head[2]
             o2 == offset + 2
         IN  IF Len(head) < 2
             THEN [err |-> "struct.error", offset |-> offset, pixel |-> pixel]
             ELSE IF size_p = 0
             THEN Runs(buf, o2, the_end, pixel \o [j \in 1..channels |-> 0])
             ELSE IF StBytes(size_p * 2) = 0
             THEN [err |-> "KeyError", offset |-> o2, pixel |-> pixel]
             ELSE LET gb == Slice(buf, o2, o2 + size_p)
                      gain == ULE(gb)
                      o3 == o2 + size_p
                      length == IF size_p = 1 THEN CeilDiv(channels, 2)
                                ELSE (channels * size_p) \div 2
                      a == Slice(buf, o3, o3 + length)
                      w == StBytes(size_p)
                  IN  IF Len(gb) # StBytes(size_p * 2) \/ Len(a) # length
                      THEN [err |-> "struct.error", offset |-> o3, pixel |-> pixel]
                      ELSE IF size_p = 1
                      THEN Runs(buf, o3 + length, the_end,
                                pixel \o Slice(Nibbles(a, gain), 0, channels))
                      ELSE Runs(buf, o3 + length, the_end,
                                pixel \o [j \in 1..channels |->
                                             ULE(SubSeq(a, (j - 1) * w + 1, j * w)) + gain])

\* additional pulses that set a mark: a channel named more than once counts once
AddPulsesOnce(pixel, add_pulses) ==
    [c \in 1..Len(pixel) |->
        pixel[c] + (IF \E j \in 1..Len(add_pulses) : add_pulses[j] = c - 1 THEN 1 ELSE 0)]

\* lines 1135-1136: pixel[i] += 1 for every additional pulse i
AddPulses(pixel, add_pulses) ==
    [c \in 1..Len(pixel) |->
        pixel[c] + Cardinality({j \in 1..Len(add_pulses) : add_pulses[j] = c - 1})]

\* lines 1060-1138: the body of a pixel record; the locals afterwards and the
\* list `pixel`, or the exception raised
PixelBody(I, s, chan1, chan2, flag, n_of_pulses, data_size2) ==
    LET data1 == Peek(s, data_size2)
        after == [s EXCEPT !.offset = @ + data_size2]
    IN  IF flag = 0
        THEN IF Len(data1) % 2 # 0 THEN [err |-> "ValueError", s |-> s, pixel |-> <<>>]
             ELSE [err |-> "", s |-> after,
                   pixel |-> BinCount(FromStringU16(data1), chan1 - 1)]
        ELSE IF flag = 1
        THEN IF Len(data1) % 2 # 0 \/ Masked12Len(data1) < 2 * n_of_pulses
             THEN [err |-> "ValueError", s |-> s, pixel |-> <<>>]
             ELSE [err |-> "", s |-> after,
                   pixel |-> BinCount(Unpack12(data1, n_of_pulses), chan1 - 1)]
        ELSE LET r == Runs(s.buffer1, s.offset, s.offset + data_size2 - 4, <<>>)
                 padded == IF chan2 < chan1
                           THEN r.pixel \o [j \in 1..(chan1 - chan2) |-> 0]
                           ELSE r.pixel
                 s1 == [s EXCEPT !.offset = r.offset]
             IN  IF r.err # "" THEN [err |-> r.err, s |-> s1, pixel |-> r.pixel]
                 ELSE IF n_of_pulses > 0
                 THEN LET head == Peek(s1, 4)
                          add_s == ULE(head)
                          s2 == RefillIf(I, [s1 EXCEPT !.offset = @ + 4], add_s)
                          raw == Peek(s2, add_s)
                          add_pulses == FromStringU16(raw)
                      IN  IF Len(head) < 4
                          THEN [err |-> "struct.error", s |-> s1, pixel |-> padded]
                          ELSE IF s2.pc = "error"
                          THEN [err |-> s2.err, s |-> s2, pixel |-> padded]
                          ELSE IF Len(raw) # 2 * n_of_pulses
                          THEN [err |-> "struct.error", s |-> s2, pixel |-> padded]
                          ELSE IF \E j \in 1..Len(add_pulses) : add_pulses[j] >= Len(padded)
                          THEN [err |-> "IndexError", s |-> s2, pixel |-> padded]
                          ELSE [err |-> "", s |-> [s2 EXCEPT !.offset = @ + add_s],
                                pixel |-> AddPulses(padded, add_pulses)]
                 ELSE [err |-> "", s |-> [s1 EXCEPT !.offset = @ + 4], pixel |-> padded]

\* vfa[lo:hi] = rhs or vfa[lo:hi] += rhs of numpy: rhs must have the length of
\* the slice or the length 1 (then it is broadcast), else ValueError
SliceWrite(vfa, lo, hi, rhs, add, bits) ==
    LET n == Len(vfa)
        a == Min(lo, n)
        b == Max(Min(hi, n), a)
    IN  IF Len(rhs) # b - a /\ Len(rhs) # 1
        THEN [err |-> "ValueError", vfa |-> vfa]
        ELSE [err |-> "",
              vfa |-> [j \in 1..n |->
                         IF a < j /\ j <= b
                         THEN LET v == IF Len(rhs) = 1 THEN rhs[1] ELSE rhs[j - a]
                              IN  Wrap(IF add THEN vfa[j] + v ELSE v, bits)
                         ELSE vfa[j]]]

\* the write of lines 1142-1149 that adds in place whatever dwn_factor is
WritePixelAdd(s, pix_idx, chan1_head, pixel) ==
    LET chan1 == IF s.max_chan < chan1_head THEN s.max_chan ELSE chan1_head
    IN  SliceWrite(s.vfa, s.max_chan * pix_idx, chan1 + s.max_chan * pix_idx,
                   Slice(pixel, 0, chan1), TRUE, s.depth.bits)

\* a write of the whole histogram, not cut to the channels of the array
WritePixelNoCrop(s, pix_idx, chan1_head, pixel) ==
    SliceWrite(s.vfa, s.max_chan * pix_idx, chan1_head + s.max_chan * pix_idx,
               Slice(pixel, 0, chan1_head), s.dwn_factor # 1, s.depth.bits)

\* lines 1142-1149: the pixel is put into the very flat array
WritePixel(s, pix_idx, chan1_head, pixel) ==
    LET chan1 == IF s.max_chan < chan1_head THEN s.max_chan ELSE chan1_head
    IN  SliceWrite(s.vfa, s.max_chan * pix_idx, chan1 + s.max_chan * pix_idx,
                   Slice(pixel, 0, chan1), s.dwn_factor # 1, s.depth.bits)

\* the end of an iteration of "for dummy1 in range(line_head)"
EndOfRecord(s) ==
    IF s.k + 1 < s.line_head THEN [s EXCEPT !.k = @ + 1]
    ELSE [s EXCEPT !.k = 0, !.line_head = 0, !.line_cnt = @ + 1,
                   !.pc = IF s.line_cnt + 1 < s.height THEN "line" ELSE "finish"]

\* lines 1033-1149: one pixel record
DecodePixel(I, s) ==
    LET s1 == RefillIf(I, s, PixelHeadLen)
        h == Peek(s1, PixelHeadLen)
        x_pix == ULE(SubSeq(h, 1, 4))
        chan1 == ULE(SubSeq(h, 5, 6))
        chan2 == ULE(SubSeq(h, 7, 8))
        flag == ULE(SubSeq(h, 13, 14))
        n_of_pulses == ULE(SubSeq(h, 17, 18))
        data_size2 == ULE(SubSeq(h, 19, 22))
        pix_idx == (x_pix \div s.dwn_factor)
                   + CeilDiv(s.width, s.dwn_factor) * (s.line_cnt \div s.dwn_factor)
        s2 == RefillIf(I, [s1 EXCEPT !.offset = @ + PixelHeadLen], data_size2)
        b == PixelBody(I, s2, chan1, chan2, flag, n_of_pulses, data_size2)
        w == WritePixel(b.s, pix_idx, chan1, b.pixel)
    IN  IF s1.pc = "error" THEN s1
        ELSE IF Len(h) < PixelHeadLen THEN Fail(s1, "struct.error")
        ELSE IF s2.pc = "error" THEN s2
        ELSE IF b.err # "" THEN Fail(b.s, b.err)
        ELSE IF w.err # "" THEN Fail(b.s, w.err)
        ELSE EndOfRecord([b.s EXCEPT !.vfa = w.vfa])

\* lines 1026-1031: the header of a line
DecodeLine(I, s) ==
    LET s1 == RefillIf(I, s, 4)
        h == Peek(s1, 4)
        line_head == S32LE(h)
        s2 == [s1 EXCEPT !.offset = @ + 4, !.line_head = line_head, !.k = 0, !.pc = "pixel"]
    IN  IF s1.pc = "error" THEN s1
        ELSE IF Len(h) < 4 THEN Fail(s1, "struct.error")
        ELSE IF line_head > 0 THEN s2
        ELSE EndOfRecord([s2 EXCEPT !.line_head = 0])

\* lines 1150-1157: the array is shaped and a signed dtype is read as unsigned
DecodeFinish(s) ==
    [s EXCEPT !.pc = "done", !.depth = [signed |-> FALSE, bits |-> s.depth.bits]]

\* the locals before the first statement
Locals0 ==
    [pc |-> "start", err |-> "", kblk |-> 0, buffer1 |-> <<>>, offset |-> 0, size |-> 0,
     size_chnk |-> 0, dwn_factor |-> 1, max_chan |-> 0,
     depth |-> [signed |-> FALSE, bits |-> 8], height |-> 0, width |-> 0,
     shape |-> <<0, 0, 0>>, vfa |-> <<>>, line_cnt |-> 0, line_head |-> 0, k |-> 0]

\* lines 1007-1024: the arguments are taken, the first block is read, the
\* array is made; with description=True the shape and the dtype are returned
DecodeStart(I, size_chnk, hdr, downsample, cutoff, description) ==
    LET max_chan == MaxChan(cutoff, hdr.est)
        depth == EstimateMapDepth(hdr.sum_max, hdr.width, hdr.height, downsample, TRUE)
        nb == IterReadChunks(I.d, I.cs, I.it, 0)
        head == Slice(nb.data, 0, 8)
        height == S32LE(SubSeq(head, 1, 4))
        width == S32LE(SubSeq(head, 5, 8))
        shape == <<CeilDiv(height, downsample), CeilDiv(width, downsample), max_chan>>
        n == shape[1] * shape[2] * shape[3]
        s == [Locals0 EXCEPT !.size_chnk = size_chnk, !.dwn_factor = downsample,
                             !.max_chan = max_chan, !.depth = depth]
        s1 == [s EXCEPT !.kblk = 1, !.buffer1 = nb.data, !.height = height,
                        !.width = width, !.shape = shape]
    IN  IF nb.kind # "yield" THEN Fail(s, nb.kind)
        ELSE IF Len(head) < 8 THEN Fail(s, "struct.error")
        ELSE IF description THEN [s1 EXCEPT !.pc = "described"]
        ELSE IF \E i \in 1..3 : shape[i] < 0 THEN Fail(s1, "ValueError")
        ELSE [s1 EXCEPT !.vfa = [j \in 1..n |-> 0],
                        !.offset = HeadLen,
                        !.size = size_chnk,
                        !.pc = IF height > 0 THEN "line" ELSE "finish"]

\* every statement of the function from the locals s to its return or exception
RECURSIVE DecodeAll(_, _)
DecodeAll(I, s) ==
    IF s.pc = "line" THEN DecodeAll(I, DecodeLine(I, s))
    ELSE IF s.pc = "pixel" THEN DecodeAll(I, DecodePixel(I, s))
    ELSE IF s.pc = "finish" THEN DecodeFinish(s)
    ELSE s

(***************************************************************************)
(* Hypermap streams: what the instrument writes for a map of H x W pixels. *)
(* A pixel record is [x, chan1, chan2, flag, pulses, runs]: pulses are the *)
(* pulse channels of a flag 0 or flag 1 record and the additional pulses   *)
(* of an instructively packed one; a run is [size_p, gain, vals].          *)
(***************************************************************************)
MaxHeight == 2      \* lines of a map
MaxWidth == 3       \* pixels of a line
Cap == 3            \* the number of channels of the mapping, chan1 of every record
HotCount == 300     \* the count of one channel of a pixel far above the average
LongPulses == 236    \* the pulses of a record whose body is longer than a block

LE16(v) == <<v % 256, v \div 256>>

RECURSIVE LEn(_, _)
LEn(v, n) == IF n = 0 THEN <<>> ELSE <<v % 256>> \o LEn(v \div 256, n - 1)

Zeros(n) == [j \in 1..n |-> 0]

\* the bytes of one run
RunBytes(r) ==
    <<r.size_p, Len(r.vals)>> \o
    (IF r.size_p = 0 THEN <<>>
     ELSE LEn(r.gain, r.size_p) \o
          (IF r.size_p = 1
           THEN [j \in 1..CeilDiv(Len(r.vals), 2) |->
                    r.vals[2 * j - 1]
                    + 16 * (IF 2 * j <= Len(r.vals) THEN r.vals[2 * j] ELSE 0)]
           ELSE Concat([j \in 1..Len(r.vals) |-> LEn(r.vals[j], r.size_p \div 2)])))

\* the counts a run stands for
RunCounts(r) == [j \in 1..Len(r.vals) |-> IF r.size_p = 0 THEN 0 ELSE r.gain + r.vals[j]]

\* the 12-bit packing of pulses: two pulses in three bytes, the bytes of every
\* 16-bit word swapped
Pack12Len(n) == 6 * (n \div 4) + 2 * (IF n % 4 = 0 THEN 0 ELSE n % 4)
Pack12(pulses) ==
    LET v(j) == IF j <= Len(pulses) THEN pulses[j] ELSE 0
        hi(q) == v(2 * q + 1) \div 16
        mid(q) == (v(2 * q + 1) % 16) * 16 + v(2 * q + 2) \div 256
        lo(q) == v(2 * q + 2) % 256
    IN  [i \in 1..Pack12Len(Len(pulses)) |->
            LET g == (i - 1) \div 6
                r == (i - 1) % 6
            IN  CASE r = 0 -> mid(2 * g)
                  [] r = 1 -> hi(2 * g)
                  [] r = 2 -> hi(2 * g + 1)
                  [] r = 3 -> lo(2 * g)
                  [] r = 4 -> lo(2 * g + 1)
                  [] r = 5 -> mid(2 * g + 1)]

\* the bytes of a pixel record: the header '<IHHIHHHI' and the body
PixelBytes(p) ==
    LET packed == Concat([j \in 1..Len(p.runs) |-> RunBytes(p.runs[j])])
        pulses16 == Concat([j \in 1..Len(p.pulses) |-> LE16(p.pulses[j])])
        body == IF p.flag = 0 THEN pulses16
                ELSE IF p.flag = 1 THEN Pack12(p.pulses)
                ELSE packed \o (IF Len(p.pulses) > 0
                                THEN LE32(Len(pulses16)) \o pulses16
                                ELSE Zeros(4))
        data_size2 == IF p.flag <= 1 THEN Len(body) ELSE Len(packed) + 4
    IN  LE32(p.x) \o LE16(p.chan1) \o LE16(p.chan2) \o Zeros(4) \o LE16(p.flag)
        \o Zeros(2) \o LE16(Len(p.pulses)) \o LE32(data_size2) \o body

LineBytes(line) == LE32(Len(line)) \o Concat([j \in 1..Len(line) |-> PixelBytes(line[j])])

\* the whole stream of a map
StreamBytes(height, width, lines) ==
    LE32(height) \o LE32(width) \o Zeros(HeadLen - 8)
    \o Concat([y \in 1..Len(lines) |-> LineBytes(lines[y])])

\* the spectrum of a pixel record: its count in channel c (0-based)
Hist(p, c) ==
    LET counts == Concat([j \in 1..Len(p.runs) |-> RunCounts(p.runs[j])])
    IN  (IF p.flag > 1 /\ c < Len(counts) THEN counts[c + 1] ELSE 0)
        + Cardinality({j \in 1..Len(p.pulses) : p.pulses[j] = c})

\* the pixel records of the model, by kind
KindNames == {"full", "short", "packed", "runs", "hot"}
\* records with an impossible field: more used channels than the capacity of
\* the map ("over"), a run whose size byte is no known encoding ("odd")
BadKinds == {"over", "odd"}
Pixel(x, kind) ==
    LET nibble == [size_p |-> 1, gain |-> 1, vals |-> <<0, 2>>]
        empty == [size_p |-> 0, gain |-> 0, vals |-> <<0>>]
        wide == [size_p |-> 4, gain |-> HotCount, vals |-> <<0>>]
        bytes == [size_p |-> 2, gain |-> 0, vals |-> <<1>>]
        base == [x |-> x, chan1 |-> Cap, chan2 |-> 0, flag |-> 0, pulses |-> <<>>,
                 runs |-> <<>>]
    IN  CASE kind = "full" -> [base EXCEPT !.pulses = <<0, Cap - 1, Cap - 1>>]
          [] kind = "short" -> [base EXCEPT !.pulses = <<0>>]
          [] kind = "packed" -> [base EXCEPT !.flag = 1, !.pulses = <<1, Cap - 1, 1>>]
          [] kind = "runs" -> [base EXCEPT !.flag = 2, !.chan2 = 3,
                                           !.runs = <<nibble, empty>>,
                                           !.pulses = <<Cap - 1, 0>>]
          [] kind = "hot" -> [base EXCEPT !.flag = 2, !.chan2 = 2,
                                          !.runs = <<wide, bytes>>]
          [] kind = "sparse" -> [base EXCEPT !.flag = 2, !.chan2 = Cap - 1,
                                             !.runs = <<[nibble EXCEPT
                                                           !.vals = [j \in 1..(Cap - 1) |-> 0]]>>,
                                             !.pulses = <<Cap - 1>>]
          [] kind = "over" -> [base EXCEPT !.flag = 2, !.chan2 = Cap + 1,
                                           !.runs = <<nibble, bytes>>]
          [] kind = "odd" -> [base EXCEPT !.flag = 2, !.chan2 = 2,
                                          !.runs = <<nibble, [bytes EXCEPT !.size_p = 3]>>]
          [] kind = "long" -> [base EXCEPT !.pulses = [j \in 1..LongPulses |-> 0]]
          [] kind = "longadd" -> [base EXCEPT !.flag = 2, !.chan2 = 3,
                                              !.runs = <<nibble, empty>>,
                                              !.pulses = [j \in 1..LongPulses |-> 0]]

\* the lines of a map of width w: no record, one record, or two records, the
\* second one of the next pixel or a second record of the same pixel
\* ("sparse" is a record with fewer channels in its runs than the capacity
\* and an additional pulse above them)
Lines(w) ==
    {<<>>}
    \cup {<<Pixel(x, kind)>> : x \in 0..(w - 1), kind \in KindNames}
    \cup {<<Pixel(0, kind)>> : kind \in BadKinds}
    \cup {<<Pixel(w - 1, "sparse")>>}
    \cup {<<Pixel(x[1], kind), Pixel(x[2], second)>> :
            x \in {q \in (0..(w - 1)) \X (0..(w - 1)) : q[2] \in {q[1], q[1] + 1}},
            kind \in {"short", "hot"}, second \in {"runs", "packed"}}

\* the lines after the first one: all empty, or all of one record
MoreLines(w) == {<<>>, <<Pixel(w - 1, "runs")>>}

Maps ==
    UNION {UNION {
        {[height |-> h, width |-> w, lines |-> [y \in 1..h |-> IF y = 1 THEN first ELSE more]] :
            first \in Lines(w), more \in IF h = 1 THEN {<<>>} ELSE MoreLines(w)}
        : w \in (MaxWidth - 1)..MaxWidth} : h \in 1..MaxHeight}

\* np.max(sum_eds): the peak of the sum of the spectra of all records
SumMax(lines) ==
    LET total(c) == LET RECURSIVE Sum(_, _)
                        Sum(y, j) == IF y > Len(lines) THEN 0
                                     ELSE IF j > Len(lines[y]) THEN Sum(y + 1, 1)
                                     ELSE Hist(lines[y][j], c) + Sum(y, j + 1)
                    IN  Sum(1, 1)
    IN  CHOOSE v \in {total(c) : c \in 0..(Cap - 1)} : \A c \in 0..(Cap - 1) : total(c) <= v

\* HyperHeader.estimate_map_channels of the headers: below and above chan1
Estimates == {Cap - 1, Cap + 1}

\* the arguments of a call: cutoff_at_channel is None or an int
Cutoffs == {[given |-> FALSE, chan |-> 0], [given |-> TRUE, chan |-> Cap - 1],
            [given |-> TRUE, chan |-> Cap + 2]}
Downsamples == {1, 2}

\* usable_chunk of the containers that hold a hypermap
BlockSizes == {424, 456}

\* the container of one file, EDSDatabase/SpectrumData0: the chunk of the
\* entry table, the chunk of the pointer table, the data chunks
MkMapDisk(cs, bytes) ==
    LET u == Usable(cs)
        nd == CeilDiv(Len(bytes), u)
    IN  [k \in 1..(2 + nd) |->
            IF k = 1 THEN [next |-> 0, body |-> Zeros(u)]
            ELSE IF k = 2
            THEN [next |-> 0,
                  body |-> PadTo(Concat([q \in 1..nd |-> LE32(1 + q)]), u, 0)]
            ELSE [next |-> 0, body |-> PadTo(Slice(bytes, (k - 3) * u, (k - 2) * u), u, 126)]]

MapTable(size) ==
    <<[ptp |-> 0, size |-> 0, parent |-> -1, is_dir |-> TRUE, name |-> <<"EDSDatabase">>],
      [ptp |-> 1, size |-> size, parent |-> 0, is_dir |-> FALSE,
       name |-> <<"SpectrumData0">>]>>

SpectrumPath == <<"EDSDatabase", "/", "SpectrumData0">>

InitDec ==
    \E m \in Maps, u \in BlockSizes, est \in Estimates :
        LET bytes == StreamBytes(m.height, m.width, m.lines)
            d == MkMapDisk(u + ChunkHeadLen, bytes)
            t == MapTable(Len(bytes))
            its == [i \in 1..2 |-> SFSTreeItem(d, u + ChunkHeadLen, t[i])]
        IN  /\ chunksize = u + ChunkHeadLen
            /\ disk = d
            /\ table = t
            /\ written = [layout |-> "fwd", ents |-> <<>>]
            /\ pc = "ready"
            /\ items = its
            /\ compression = "None"
            /\ paths = <<<<-1>>, <<0, -1>>>>
            /\ vfs = FlatItemsToDict(its, <<<<-1>>, <<0, -1>>>>).map
            /\ ret = NoCall
            /\ hmap = [height |-> m.height, width |-> m.width, lines |-> m.lines,
                       est |-> est, sum_max |-> SumMax(m.lines)]
            /\ call = NoCall
            /\ dec = Locals0
            /\ bcf = NoCall
            /\ thr = NoCall
            /\ fh = NoCall

\* iter_data of the call: the generator over the file that get_file returned
IterData == [d |-> disk, cs |-> chunksize,
             it |-> items[GetFile(vfs, SpectrumPath).node.idx]]

\* lines 1002-1024
Start ==
    /\ dec.pc = "start"
    /\ GetFile(vfs, SpectrumPath).err = ""
    /\ \E downsample \in Downsamples, cutoff \in Cutoffs, description \in BOOLEAN :
          /\ call' = [op |-> "py_parse_hypermap", downsample |-> downsample,
                      cutoff |-> cutoff, description |-> description]
          /\ dec' = DecodeStart(IterData,
                                GetIterAndProperties(chunksize, compression,
                                                     IterData.it).size_chnk,
                                hmap, downsample, cutoff, description)
    /\ UNCHANGED <<bcfvars, sfsvars, hmap>>

\* lines 1025-1031
LineHead ==
    /\ dec.pc = "line"
    /\ dec' = DecodeLine(IterData, dec)
    /\ UNCHANGED <<bcfvars, sfsvars, hmap, call>>

\* lines 1032-1149
PixelRecord ==
    /\ dec.pc = "pixel"
    /\ dec' = DecodePixel(IterData, dec)
    /\ UNCHANGED <<bcfvars, sfsvars, hmap, call>>

\* lines 1150-1157
Finish ==
    /\ dec.pc = "finish"
    /\ dec' = DecodeFinish(dec)
    /\ UNCHANGED <<bcfvars, sfsvars, hmap, call>>

NextDec == Start \/ LineHead \/ PixelRecord \/ Finish

SpecDec == InitDec /\ [][NextDec]_vars

(***************************************************************************)
(* What the stream holds, to compare the decoded array with.               *)
(***************************************************************************)
RECURSIVE SumSeq(_)
SumSeq(q) == IF q = <<>> THEN 0 ELSE Head(q) + SumSeq(Tail(q))

\* every record of the map in the order of the stream, with its line (0-based)
AllRecords ==
    Concat([y \in 1..Len(hmap.lines) |->
               [j \in 1..Len(hmap.lines[y]) |-> [y |-> y - 1, j |-> j, p |-> hmap.lines[y][j]]]])

\* the records that the decoder s has written: those before record k of line_cnt
Written(s) == SelectSeq(AllRecords, LAMBDA r : r.y < s.line_cnt \/ (r.y = s.line_cnt /\ r.j <= s.k))

\* the records of a sequence that fall into the cell (cy, cx) for the factor d
InCell(recs, d, cy, cx) == SelectSeq(recs, LAMBDA r : r.y \div d = cy /\ r.p.x \div d = cx)

\* the count of channel c that record p brings into an array of C channels
Given(p, c, C) == IF c < Min(p.chan1, C) THEN Hist(p, c) ELSE 0

\* out[cy, cx, c] of the very flat array of the decoder s
Cell(s, cy, cx, c) == s.vfa[(cy * s.shape[2] + cx) * s.shape[3] + c + 1]

\* the cells and the channels of the array of the decoder s
Cells(s) == (0..(s.shape[1] - 1)) \X (0..(s.shape[2] - 1))
Channels(s) == 0..(s.shape[3] - 1)

\* the channel count the code takes: the user's cutoff, else the header estimate
CodeChannels == IF call.cutoff.given THEN call.cutoff.chan ELSE hmap.est

(***************************************************************************)
(* C7: the channel count C of the decoded array (its last axis) is the     *)
(* user's cutoff channel when one is given and the header estimate         *)
(* otherwise; the capacity chan1 of the pixel headers does not limit it,   *)
(* so a cutoff above the capacity or above the header estimate gives a     *)
(* longer last axis.  A pixel is written in the channels                   *)
(* [0, min(chan1, C)) only: the channels from min(chan1, C) on stay 0 and  *)
(* the pulses at channels >= C are dropped, every channel below holding    *)
(* the counts of that channel alone.                                       *)
(***************************************************************************)
C7_ChannelCount ==
    /\ dec.pc \in {"described", "line", "pixel", "finish", "done"} =>
          dec.shape = <<CeilDiv(hmap.height, call.downsample),
                        CeilDiv(hmap.width, call.downsample), CodeChannels>>
    /\ dec.pc = "done" =>
          /\ Len(dec.vfa) = dec.shape[1] * dec.shape[2] * CodeChannels
          /\ \A cell \in Cells(dec), c \in Channels(dec) :
                LET got == InCell(AllRecords, call.downsample, cell[1], cell[2])
                    counts == [i \in 1..Len(got) |-> Given(got[i].p, c, CodeChannels)]
                IN  /\ c >= Min(Cap, CodeChannels) => Cell(dec, cell[1], cell[2], c) = 0
                    /\ call.downsample > 1 =>
                          Cell(dec, cell[1], cell[2], c) = Wrap(SumSeq(counts), dec.depth.bits)

\* a decode with a cutoff above the capacity and the header estimate has
\* returned an array that holds records with pulses in the last channel
C7_Witness ==
    /\ dec.pc = "done"
    /\ call.cutoff.given
    /\ call.cutoff.chan > Cap
    /\ call.cutoff.chan > hmap.est
    /\ dec.shape[3] = call.cutoff.chan
    /\ \E i \in 1..Len(AllRecords) : Hist(AllRecords[i].p, Cap - 1) > 0

\* the statement of the spec: C = min(capacity, header estimate, user cutoff)
C7_MinOfThree ==
    dec.pc \in {"described", "line", "pixel", "finish", "done"} =>
        dec.shape[3] = Min(Cap, Min(hmap.est,
                                    IF call.cutoff.given THEN call.cutoff.chan ELSE hmap.est))

(***************************************************************************)
(* C8: a pixel record at the source coordinates (y, x) is written into the *)
(* cell (y div d, x div d) and into no other cell.  For d > 1 its          *)
(* histogram is added element-wise to what the cell holds (the array       *)
(* starts from zeros, so the first record of a cell is stored as it is);   *)
(* for d == 1 it is written by assignment, so that of two records of a     *)
(* line with the same x_pix the later one replaces the earlier one in the  *)
(* channels [0, min(chan1, C)).                                            *)
(***************************************************************************)
C8_PixelWrite ==
    [][(dec.pc = "pixel" /\ dec'.pc # "error") =>
          LET p == hmap.lines[dec.line_cnt + 1][dec.k + 1]
              d == call.downsample
              cy == dec.line_cnt \div d
              cx == p.x \div d
          IN  /\ <<cy, cx>> \in Cells(dec)
              /\ \A cell \in Cells(dec), c \in Channels(dec) :
                    Cell(dec', cell[1], cell[2], c) =
                        IF cell = <<cy, cx>> /\ c < Min(p.chan1, dec.max_chan)
                        THEN Wrap((IF d > 1 THEN Cell(dec, cy, cx, c) ELSE 0) + Hist(p, c),
                                  dec.depth.bits)
                        ELSE Cell(dec, cell[1], cell[2], c)]_vars

\* with d == 1 the second record of a pixel has been written over the first
\* one, whose spectrum is another
C8_Witness ==
    /\ dec.pc \in {"line", "finish"}
    /\ call.downsample = 1
    /\ \E y \in 1..dec.line_cnt :
          /\ Len(hmap.lines[y]) = 2
          /\ hmap.lines[y][1].x = hmap.lines[y][2].x
          /\ \E c \in Channels(dec) :
                /\ Hist(hmap.lines[y][1], c) > 0
                /\ Cell(dec, y - 1, hmap.lines[y][1].x, c) = Hist(hmap.lines[y][2], c)
                /\ Hist(hmap.lines[y][2], c) < Hist(hmap.lines[y][1], c) + Hist(hmap.lines[y][2], c)

\* the statement of the spec: for every d the histogram is added when the
\* cell has received a record before, and assigned when it has not
C8_AddWhenReceived ==
    [][(dec.pc = "pixel" /\ dec'.pc # "error") =>
          LET p == hmap.lines[dec.line_cnt + 1][dec.k + 1]
              d == call.downsample
              cy == dec.line_cnt \div d
              cx == p.x \div d
              received == InCell(Written(dec), d, cy, cx) # <<>>
          IN  \A c \in 0..(Min(p.chan1, dec.max_chan) - 1) :
                  Cell(dec', cy, cx, c) =
                      Wrap((IF received THEN Cell(dec, cy, cx, c) ELSE 0) + Hist(p, c),
                           dec.depth.bits)]_vars

(***************************************************************************)
(* C9: when H mod d == 0 and W mod d == 0, the array of decode(d) equals,  *)
(* cell for cell and channel for channel, the sums over the d x d blocks   *)
(* of the array of decode(d=1) of the same stream and cutoff.              *)
(* The code stores the array of d == 1 in the dtype estimated for d == 1,  *)
(* where the count of a pixel far above the average wraps, and keeps the   *)
(* later one of two records of a pixel; decode(d) does neither.            *)
(***************************************************************************)
C9_BlockSum ==
    (/\ dec.pc = "done"
     /\ call.downsample > 1
     /\ hmap.height % call.downsample = 0
     /\ hmap.width % call.downsample = 0) =>
        LET d == call.downsample
            one == DecodeAll(IterData,
                             DecodeStart(IterData, dec.size_chnk, hmap, 1, call.cutoff, FALSE))
        IN  /\ one.pc = "done"
            /\ \A cell \in Cells(dec), c \in Channels(dec) :
                  Cell(dec, cell[1], cell[2], c) =
                      SumSeq([i \in 1..(d * d) |->
                                 Cell(one, cell[1] * d + (i - 1) \div d,
                                      cell[2] * d + ((i - 1) % d), c)])

(***************************************************************************)
(* C10: for every d and every cutoff C, the sum of all cells of the        *)
(* returned array equals the sum over all pixel records of the stream of   *)
(* the counts of the record in the channels [0, C): no count is lost or    *)
(* duplicated.                                                             *)
(* The code loses the counts above the range of the estimated dtype, and   *)
(* with d == 1 the counts of a record that a later record of the same      *)
(* pixel replaces.                                                         *)
(***************************************************************************)
C10_CountsConserved ==
    dec.pc = "done" =>
        SumSeq(dec.vfa) =
            SumSeq([i \in 1..Len(AllRecords) |->
                       SumSeq([c \in 1..dec.shape[3] |->
                                  Given(AllRecords[i].p, c - 1, dec.shape[3])])])

(***************************************************************************)
(* C11: every value of the returned array is the exact count of its cell   *)
(* and channel: the sum of the counts of the records of the cell for       *)
(* d > 1, the count of the record written to the cell for d == 1.  The     *)
(* dtype never wraps a count.                                              *)
(* The code estimates the dtype from the average of the map, and the count *)
(* of a pixel far above the average wraps.                                 *)
(***************************************************************************)
C11_ExactCounts ==
    dec.pc = "done" =>
        \A cell \in Cells(dec), c \in Channels(dec) :
            LET got == InCell(AllRecords, call.downsample, cell[1], cell[2])
                counts == [i \in 1..Len(got) |-> Given(got[i].p, c, dec.shape[3])]
            IN  Cell(dec, cell[1], cell[2], c) =
                    IF call.downsample > 1 THEN SumSeq(counts)
                    ELSE IF got = <<>> THEN 0
                    ELSE counts[Len(counts)]

(***************************************************************************)
(* HyperHeader.estimate_map_depth on its own: the image of the header and  *)
(* the peak of the summed spectrum are drawn around the limits of the      *)
(* dtypes, and the call draws the downsample factor.                       *)
(***************************************************************************)
MaxSide == 3            \* widest and highest image
MaxDown == 2            \* largest downsample factor
Spread == 4             \* how far the peaks lie around a limit

\* the roofs the code compares with (0xEF, 0xFF, 0xEFFF, 0xFFFF)
Limits == {239, 255, 61439, 65535}

\* peaks whose estimate lies around a limit for some image and factor
Peaks ==
    { (t * hw) \div k + e : t \in Limits, hw \in {1, 2, 3, 4, 6, 9}, k \in {2, 8},
                            e \in (0 - Spread)..Spread }
    \cup { 2013265919 \div dd + e : dd \in {1, 4}, e \in 0..2 }

InitDepth ==
    \E m \in Peaks, w \in 1..MaxSide, h \in 1..MaxSide :
        /\ m >= 0
        /\ chunksize = 0
        /\ disk = <<>>
        /\ table = <<>>
        /\ written = [layout |-> "fwd", ents |-> <<>>]
        /\ pc = "ready"
        /\ items = <<>>
        /\ compression = "None"
        /\ paths = <<>>
        /\ vfs = EmptyMap
        /\ ret = NoCall
        /\ hmap = [height |-> h, width |-> w, sum_max |-> m]
        /\ call = NoCall
        /\ dec = NoCall
        /\ bcf = NoCall
        /\ thr = NoCall
        /\ fh = NoCall

\* lines 763-795
EstimateDepth ==
    /\ call = NoCall
    /\ \E downsample \in 1..MaxDown, for_numpy \in BOOLEAN :
          \* downsample^2 * m stays within the integers of the model checker
          /\ hmap.sum_max <= 2147483647 \div (downsample * downsample)
          /\ call' = [op |-> "estimate_map_depth", downsample |-> downsample,
                      for_numpy |-> for_numpy]
          /\ dec' = [op |-> "estimate_map_depth",
                     depth |-> EstimateMapDepth(hmap.sum_max, hmap.width, hmap.height,
                                                downsample, for_numpy)]
    /\ UNCHANGED <<bcfvars, sfsvars, hmap>>

NextDepth == EstimateDepth

SpecDepth == InitDepth /\ [][NextDepth]_vars

\* the dtype of the table of limits for a bound given by Above: unsigned for
\* d == 1, signed for d > 1
TableDepth(Above(_), d) ==
    IF d = 1
    THEN IF ~Above(127) THEN [signed |-> FALSE, bits |-> 8]
         ELSE IF ~Above(32767) THEN [signed |-> FALSE, bits |-> 16]
         ELSE [signed |-> FALSE, bits |-> 32]
    ELSE IF ~Above(119) THEN [signed |-> TRUE, bits |-> 8]
         ELSE IF ~Above(30719) THEN [signed |-> TRUE, bits |-> 16]
         ELSE IF ~Above(2013265919) THEN [signed |-> TRUE, bits |-> 32]
         ELSE [signed |-> TRUE, bits |-> 64]

\* the estimate the decoder asked for (for_numpy is True at line 1014)
Estimated == call # NoCall /\ call.op = "estimate_map_depth" /\ call.for_numpy

(***************************************************************************)
(* C12: the dtype is the one of the table of limits (u8, u16, u32 for      *)
(* d == 1; i8 up to 0xEF, i16 up to 0xEFFF, i32 up to 0xEFFFFFFF, i64      *)
(* above, for d > 1) for the bound 2 * d^2 * floor(floor(m / W) / H): the  *)
(* peak is divided by the width and by the height with integer divisions   *)
(* before it is multiplied.                                                *)
(***************************************************************************)
C12_DepthOfFlooredBound ==
    Estimated =>
        LET d == call.downsample
            Above(h) == RatioAbove(d * d * ((hmap.sum_max \div hmap.width) \div hmap.height),
                                   1, h)
        IN  dec.depth = TableDepth(Above, d)

\* a call where the floored bound and the real-valued bound pick two dtypes
C12_Witness ==
    /\ Estimated
    /\ LET d == call.downsample
           Above(h) == RatioAbove(d * d * hmap.sum_max, hmap.width * hmap.height, h)
       IN  /\ d > 1
           /\ dec.depth # TableDepth(Above, d)

\* C12 as stated: the dtype is the one of the table for the bound
\* b = 2 * d^2 * m / (H * W), for every m, H, W and d
C12_DepthOfBound ==
    Estimated =>
        LET d == call.downsample
            Above(h) == RatioAbove(d * d * hmap.sum_max, hmap.width * hmap.height, h)
        IN  dec.depth = TableDepth(Above, d)

\* the (shape, dtype) that the description call of the same arguments
\* returns, line 964: py_parse_hypermap with description=True
Described ==
    DecodeStart(IterData, dec.size_chnk, hmap, call.downsample, call.cutoff, TRUE)

(***************************************************************************)
(* C13: the shape and the dtype returned by the description call are the   *)
(* shape and the dtype of the array that the full decode of the same       *)
(* arguments returns.                                                      *)
(* For d > 1 the description returns the signed dtype of the estimate and  *)
(* the decode returns an array reinterpreted as unsigned.                  *)
(***************************************************************************)
C13_LazyDescription ==
    dec.pc = "done" =>
        /\ Described.pc = "described"
        /\ Described.shape = dec.shape
        /\ Described.depth = dec.depth

\* a pixel record with an impossible field: chan2 (the channels in use)
\* above chan1 (the capacity), or a run of an unknown encoding
Impossible(p) ==
    \/ p.chan2 > p.chan1
    \/ \E j \in 1..Len(p.runs) : p.runs[j].size_p \notin {0, 1, 2, 4, 8}

(***************************************************************************)
(* C14: a decode of a stream that holds a record with an impossible field  *)
(* ends with the error BadHypermap and returns no array.                   *)
(* The code validates no field: a record with chan2 > chan1 is decoded     *)
(* into the array, and an unknown run encoding ends with a KeyError.       *)
(***************************************************************************)
C14_BadHypermap ==
    (/\ dec.pc \in {"done", "error"}
     /\ \E i \in 1..Len(AllRecords) : Impossible(AllRecords[i].p))
        => dec.pc = "error" /\ dec.err = "BadHypermap"

(***************************************************************************)
(* BCF_reader.__init__, check_index_valid and bcf_hyperspectra: the        *)
(* hypermaps of a container and the ones that a load decodes.  A name is   *)
(* the sequence of its characters; "SpectrumData" and "HeaderData" stand   *)
(* for their characters as one.                                            *)
(***************************************************************************)
MaxEntries == 3         \* SpectrumData entries of the directory EDSDatabase

DigitChars == <<"0", "1", "2", "3", "4", "5", "6", "7", "8", "9">>

\* str(index) of an index that is not negative
RECURSIVE Str(_)
Str(n) == IF n < 10 THEN <<DigitChars[n + 1]>>
          ELSE Append(Str(n \div 10), DigitChars[(n % 10) + 1])

\* int(c) of one character: its value, -1 for the ValueError of no digit
IntOfChar(c) ==
    IF \E v \in 0..9 : DigitChars[v + 1] = c
    THEN CHOOSE v \in 0..9 : DigitChars[v + 1] = c
    ELSE -1

\* self.vfs['EDSDatabase'].keys(): the names of the directory in the order
\* of their insertion, which is the order of the entry table
EDSKeys(its, m) ==
    LET dir == <<RootName, <<"EDSDatabase">>>>
        here(j) == /\ Append(dir, its[j].name) \in DOMAIN m
                   /\ m[Append(dir, its[j].name)].idx = j
        js == SelectSeq([j \in 1..Len(its) |-> j], here)
    IN  [r \in 1..Len(js) |-> its[js[r]].name]

\* min of a list that is not empty
MinOf(lst) == CHOOSE v \in {lst[j] : j \in 1..Len(lst)} :
                  \A j \in 1..Len(lst) : v <= lst[j]

\* BCF_reader.__init__ after SFS_reader.__init__: the attributes of the object
BCFReaderInit(its, m) ==
    LET header_file == GetFile(m, <<"EDSDatabase", "/", "HeaderData">>)
        spectrum(name) == \E r \in 1..Len(name) : name[r] = "SpectrumData"
        names == SelectSeq(EDSKeys(its, m), spectrum)
        available_indexes == [j \in 1..Len(names) |-> IntOfChar(Last(names[j]))]
        none == [pc |-> "error", err |-> "", available_indexes |-> <<>>, def_index |-> 0,
                 hypermap |-> {}, index |-> NoCall, indexes |-> <<>>, i |-> 0,
                 hyperspectra |-> <<>>]
    IN  IF header_file.err # "" THEN [none EXCEPT !.err = header_file.err]
        ELSE IF \E j \in 1..Len(names) : available_indexes[j] = -1
        THEN [none EXCEPT !.err = "ValueError"]
        ELSE IF available_indexes = <<>>
        THEN [none EXCEPT !.err = "ValueError",
                          !.available_indexes = available_indexes]
        ELSE [none EXCEPT !.pc = "ready",
                          !.available_indexes = available_indexes,
                          !.def_index = MinOf(available_indexes)]

\* BCF_reader.check_index_valid: the error it raises, "" when it returns index
CheckIndexValid(b, index) ==
    IF index.type # "int" THEN "TypeError"
    ELSE IF \A j \in 1..Len(b.available_indexes) : b.available_indexes[j] # index.val
    THEN "IndexError"
    ELSE ""

\* bcf_hyperspectra up to its loop, lines 1246-1254
LoadStart(b, index) ==
    IF index.type = "None"
    THEN [b EXCEPT !.pc = "loop", !.index = index, !.indexes = <<b.def_index>>]
    ELSE IF index = [type |-> "str", val |-> "all"]
    THEN [b EXCEPT !.pc = "loop", !.index = index, !.indexes = b.available_indexes]
    ELSE IF CheckIndexValid(b, index) # ""
    THEN [b EXCEPT !.pc = "error", !.index = index, !.err = CheckIndexValid(b, index)]
    ELSE [b EXCEPT !.pc = "loop", !.index = index, !.indexes = <<index.val>>]

\* one pass of the loop of bcf_hyperspectra: persistent_parse_hypermap opens
\* 'EDSDatabase/SpectrumData' + str(index), decodes the entry and stores the
\* result in self.hypermap[index]; the loop appends one record.  The entry
\* that was opened stands for the array decoded from it.
LoadOne(b, m) ==
    LET index == b.indexes[b.i + 1]
        spectrum_file == GetFile(m, <<"EDSDatabase", "/", "SpectrumData">> \o Str(index))
    IN  IF spectrum_file.err # ""
        THEN [b EXCEPT !.pc = "error", !.err = spectrum_file.err]
        ELSE [b EXCEPT !.i = b.i + 1,
                       !.hypermap = {h \in b.hypermap : h.index # index}
                                    \cup {[index |-> index, data |-> spectrum_file.at]},
                       !.hyperspectra = Append(b.hyperspectra,
                                               [index |-> index,
                                                data |-> spectrum_file.at])]

\* the indices of the hypermaps that the writer stored
StoredIndices == {0, 1, 2, 10, 12}

\* the directory EDSDatabase with HeaderData and the hypermaps of `order`
LoadTable(order) ==
    <<[ptp |-> 0, size |-> 0, parent |-> -1, is_dir |-> TRUE, name |-> <<"EDSDatabase">>],
      [ptp |-> 0, size |-> 0, parent |-> 0, is_dir |-> FALSE, name |-> <<"HeaderData">>]>>
    \o [j \in 1..Len(order) |->
           [ptp |-> 0, size |-> 0, parent |-> 0, is_dir |-> FALSE,
            name |-> <<"SpectrumData">> \o Str(order[j])]]

\* the hypermaps of a container, in the two orders of the entry table
Orders ==
    LET RECURSIVE Asc(_)
        Asc(S) == IF S = {} THEN <<>>
                  ELSE LET v == CHOOSE v \in S : \A w \in S : v <= w
                       IN  <<v>> \o Asc(S \ {v})
    IN  UNION {{Asc(S), Reverse(Asc(S))} :
                  S \in {T \in SUBSET StoredIndices : Cardinality(T) <= MaxEntries}}

\* the index argument of a load
IndexArgs ==
    {[type |-> "None", val |-> 0], [type |-> "str", val |-> "all"],
     [type |-> "str", val |-> "0"]}
    \cup {[type |-> "int", val |-> v] : v \in StoredIndices \cup {3}}

InitLoad ==
    \E order \in Orders :
        LET t == LoadTable(order)
            its == [i \in 1..Len(t) |-> SFSTreeItem(<<>>, 36, t[i])]
            ps == [i \in 1..Len(t) |-> IF i = 1 THEN <<-1>> ELSE <<0, -1>>]
        IN  /\ chunksize = 36
            /\ disk = <<>>
            /\ table = t
            /\ written = [layout |-> "fwd", ents |-> order]
            /\ pc = "ready"
            /\ items = its
            /\ compression = "None"
            /\ paths = ps
            /\ vfs = FlatItemsToDict(its, ps).map
            /\ ret = NoCall
            /\ hmap = NoMap
            /\ call = NoCall
            /\ dec = NoCall
            /\ bcf = [pc |-> "new"]
            /\ thr = NoCall
            /\ fh = NoCall

\* lines 860-870
Construct ==
    /\ bcf.pc = "new"
    /\ bcf' = BCFReaderInit(items, vfs)
    /\ UNCHANGED <<sfsvars, decvars, thr, fh>>

\* lines 1246-1254
CallLoad ==
    /\ bcf.pc = "ready"
    /\ \E index \in IndexArgs : bcf' = LoadStart(bcf, index)
    /\ UNCHANGED <<sfsvars, decvars, thr, fh>>

\* lines 1255-1257 and 881-907: one pass of the loop
ParseHypermap ==
    /\ bcf.pc = "loop"
    /\ bcf.i < Len(bcf.indexes)
    /\ bcf' = LoadOne(bcf, vfs)
    /\ UNCHANGED <<sfsvars, decvars, thr, fh>>

\* the return of bcf_hyperspectra
ReturnLoad ==
    /\ bcf.pc = "loop"
    /\ bcf.i = Len(bcf.indexes)
    /\ bcf' = [bcf EXCEPT !.pc = "loaded"]
    /\ UNCHANGED <<sfsvars, decvars, thr, fh>>

NextLoad == Construct \/ CallLoad \/ ParseHypermap \/ ReturnLoad

SpecLoad == InitLoad /\ [][NextLoad]_vars

\* the integers i for which the directory holds an entry SpectrumData<i>
TrueIndices == {written.ents[j] : j \in 1..Len(written.ents)}

\* the indices of the hypermaps decoded so far, one per result record
Decoded == [j \in 1..Len(bcf.hyperspectra) |-> bcf.hyperspectra[j].index]

(***************************************************************************)
(* C15: the hypermaps that a load decodes are given by its index: None     *)
(* decodes the least available index and no other, "all" decodes every     *)
(* available index with one record each, an available integer decodes that *)
(* index and no other, and an integer that is not available ends with an   *)
(* IndexError before any hypermap is decoded.  The available indices are   *)
(* the i of the entries SpectrumData<i>.                                   *)
(***************************************************************************)
C15_LoadByIndex ==
    (bcf.pc \in {"loaded", "error"} /\ bcf.index # NoCall) =>
        LET least == CHOOSE v \in TrueIndices : \A w \in TrueIndices : v <= w
        IN  CASE bcf.index.type = "None" -> bcf.pc = "loaded" /\ Decoded = <<least>>
              [] bcf.index = [type |-> "str", val |-> "all"] ->
                    /\ bcf.pc = "loaded"
                    /\ Len(Decoded) = Cardinality(TrueIndices)
                    /\ {Decoded[j] : j \in 1..Len(Decoded)} = TrueIndices
              [] bcf.index.type = "int" /\ bcf.index.val \in TrueIndices ->
                    bcf.pc = "loaded" /\ Decoded = <<bcf.index.val>>
              [] bcf.index.type = "int" /\ bcf.index.val \notin TrueIndices ->
                    bcf.pc = "error" /\ bcf.err = "IndexError" /\ Decoded = <<>>
              [] OTHER -> TRUE

(***************************************************************************)
(* C16: the available indices are the integers i for which the directory   *)
(* EDSDatabase holds an entry SpectrumData<i>, also for i of two digits,   *)
(* and the default index is the least of them.                             *)
(* The code takes the last character of the name as the index.             *)
(***************************************************************************)
C16_AvailableIndices ==
    (bcf.pc # "new" /\ TrueIndices # {}) =>
        /\ bcf.pc # "error" \/ bcf.index # NoCall
        /\ {bcf.available_indexes[j] : j \in 1..Len(bcf.available_indexes)} = TrueIndices
        /\ \A w \in TrueIndices : bcf.def_index <= w
        /\ bcf.def_index \in TrueIndices

(***************************************************************************)
(* Two threads that decode the hypermap of one BCF_reader, each with       *)
(* persistent_parse_hypermap.  A thread is its arguments, the locals s of  *)
(* its py_parse_hypermap, the positions `reads` at which its generator     *)
(* read its blocks, and io: "next" at a next(iter_data), "sought" between  *)
(* the fn.seek and the fn.read of _iter_read_chunks.  A thread may be preempted before any statement   *)
(* that reads or writes what another thread can reach: the file objects    *)
(* and self.hypermap.                                                      *)
(***************************************************************************)
Threads == {1, 2}

\* a file object of another kind: one for all generators
HandleOfShared(p) == 1

\* the file object of the generator of thread p: _iter_read_chunks opens the
\* file itself (line 199), so every generator has its own
HandleOf(p) == p

\* iter_data of thread p: the blocks it has read come from where its file
\* object stood at the read, the others from where the pointers say
IterDataOf(p) ==
    LET rd == thr[p].reads
        ptrs == IterData.it.pointers
    IN  [IterData EXCEPT !.it.pointers =
            [k \in 1..Max(Len(ptrs), Len(rd)) |-> IF k <= Len(rd) THEN rd[k] ELSE ptrs[k]]]

\* the statements of py_parse_hypermap from the position of thread p to the
\* next position
StepOf(p) ==
    LET t == thr[p]
        I == IterDataOf(p)
    IN  IF t.s.pc = "start"
        THEN DecodeStart(I, GetIterAndProperties(chunksize, compression,
                                                 IterData.it).size_chnk,
                         hmap, t.args.downsample, t.args.cutoff, FALSE)
        ELSE IF t.s.pc = "line" THEN DecodeLine(I, t.s)
        ELSE IF t.s.pc = "pixel" THEN DecodePixel(I, t.s)
        ELSE DecodeFinish(t.s)

Running(p) == thr[p].s.pc \in {"start", "line", "pixel", "finish"}

\* the bytes of the block k that _iter_read_chunks reads, lines 200-208
BlockLen(k) ==
    LET it == IterData.it
        usable_chunk == chunksize - ChunkHeadLen
    IN  IF k < it.size_in_chunks - 1 \/ it.size % usable_chunk = 0
        THEN usable_chunk
        ELSE it.size % usable_chunk

\* the streams that the threads decode: one record in the first line
ParMaps ==
    {m \in Maps : /\ m.width = MaxWidth - 1
                  /\ Len(m.lines[1]) = 1
                  /\ m.lines[1][1].x = 0
                  /\ m.lines[1][1] \in {Pixel(0, "full"), Pixel(0, "packed"),
                                        Pixel(0, "runs")}}

InitPar ==
    \E m \in ParMaps, u \in BlockSizes :
        LET bytes == StreamBytes(m.height, m.width, m.lines)
            d == MkMapDisk(u + ChunkHeadLen, bytes)
            t == MapTable(Len(bytes))
            its == [i \in 1..2 |-> SFSTreeItem(d, u + ChunkHeadLen, t[i])]
        IN  /\ chunksize = u + ChunkHeadLen
            /\ disk = d
            /\ table = t
            /\ written = [layout |-> "fwd", ents |-> <<>>]
            /\ pc = "ready"
            /\ items = its
            /\ compression = "None"
            /\ paths = <<<<-1>>, <<0, -1>>>>
            /\ vfs = FlatItemsToDict(its, <<<<-1>>, <<0, -1>>>>).map
            /\ ret = NoCall
            /\ hmap = [height |-> m.height, width |-> m.width, lines |-> m.lines,
                       est |-> Cap - 1, sum_max |-> SumMax(m.lines)]
            /\ call = NoCall
            /\ dec = NoCall
            /\ bcf = [hypermap |-> {}]
            /\ thr = [p \in Threads |->
                         [pc |-> "idle", args |-> NoCall, s |-> Locals0, reads |-> <<>>,
                          io |-> "idle", mixed |-> FALSE]]
            /\ fh = [h \in Threads |-> 0]

\* the call of persistent_parse_hypermap, lines 881-902
BeginDecode(p) ==
    /\ thr[p].pc = "idle"
    /\ \E downsample \in Downsamples :
          thr' = [thr EXCEPT ![p].pc = "decode",
                             ![p].args = [index |-> 0, downsample |-> downsample,
                                          cutoff |-> [given |-> FALSE, chan |-> 0]]]
    /\ UNCHANGED <<sfsvars, decvars, bcf, fh>>

\* fn.seek(self.pointers[idx]) of the generator of thread p, resumed by
\* next(iter_data)
SeekBlock(p) ==
    /\ thr[p].io = "next"
    /\ fh' = [fh EXCEPT ![HandleOf(p)] = IterData.it.pointers[Len(thr[p].reads) + 1]]
    /\ thr' = [thr EXCEPT ![p].io = "sought"]
    /\ UNCHANGED <<sfsvars, decvars, bcf>>

\* fn.read(...) of the generator of thread p
ReadBlock(p) ==
    /\ thr[p].io = "sought"
    /\ thr' = [thr EXCEPT ![p].io = "idle",
                          ![p].reads = Append(@, fh[HandleOf(p)]),
                          ![p].mixed = @ \/ \E q \in Threads \ {p} : thr[q].io = "sought"]
    /\ fh' = [fh EXCEPT ![HandleOf(p)] = @ + BlockLen(Len(thr[p].reads))]
    /\ UNCHANGED <<sfsvars, decvars, bcf>>

\* thread t after the statements that lead to the locals st: when they take
\* a block that the generator has not read yet, the thread is at its
\* next(iter_data) and the statements run once the block is there
Advance(t, st) ==
    IF st.kblk > Len(t.reads) THEN [t EXCEPT !.io = "next"] ELSE [t EXCEPT !.s = st]

\* the statements of py_parse_hypermap from one position to the next
DecodeStep(p) ==
    /\ thr[p].pc = "decode" /\ Running(p)
    /\ thr[p].io = "idle"
    /\ thr' = [thr EXCEPT ![p] = Advance(@, StepOf(p))]
    /\ UNCHANGED <<sfsvars, decvars, bcf, fh>>

\* self.hypermap[index] = HyperMap(hypermap, ...), lines 903-907
StoreHypermap(p) ==
    /\ thr[p].pc = "decode"
    /\ thr[p].s.pc = "done"
    /\ bcf' = [bcf EXCEPT !.hypermap =
                  {h \in @ : h.index # thr[p].args.index}
                  \cup {[index |-> thr[p].args.index, hypermap |-> thr[p].s.vfa,
                         shape |-> thr[p].s.shape, downsample |-> thr[p].args.downsample]}]
    /\ thr' = [thr EXCEPT ![p].pc = "returned"]
    /\ UNCHANGED <<sfsvars, decvars, fh>>

NextPar ==
    \E p \in Threads :
        BeginDecode(p) \/ SeekBlock(p) \/ ReadBlock(p) \/ DecodeStep(p) \/ StoreHypermap(p)

SpecPar == InitPar /\ [][NextPar]_vars

\* what the decode of thread p returns when it runs alone
Alone(p) ==
    DecodeAll(IterData,
              DecodeStart(IterData,
                          GetIterAndProperties(chunksize, compression, IterData.it).size_chnk,
                          hmap, thr[p].args.downsample, thr[p].args.cutoff, FALSE))

\* the outcome of a decode: the array with its shape and dtype, or the error
Outcome(s) == [pc |-> s.pc, err |-> s.err, vfa |-> s.vfa, shape |-> s.shape,
               depth |-> s.depth]

Stream == StreamBytes(hmap.height, hmap.width, hmap.lines)

\* where the header of line y (0-based) starts in the stream
LinePos(y) == HeadLen + SumSeq([i \in 1..y |-> Len(LineBytes(hmap.lines[i]))])

\* where record k (0-based) of line y starts in the stream
RecPos(y, k) ==
    LinePos(y) + 4 + SumSeq([j \in 1..k |-> Len(PixelBytes(hmap.lines[y + 1][j]))])

\* the logical stream position of the decoder: the next byte it will read
PosOf(s) ==
    IF s.pc = "line" THEN LinePos(s.line_cnt)
    ELSE IF s.pc = "pixel" THEN RecPos(s.line_cnt, s.k)
    ELSE Len(Stream)

\* the bytes of the stream in the blocks taken so far
Fetched(s) == Min(s.kblk * s.size_chnk, Len(Stream))

\* the part of the buffer not yet consumed is the stream from the logical
\* position to the end of the last block taken
Unconsumed(s) ==
    Slice(s.buffer1, s.offset, Len(s.buffer1)) = Slice(Stream, PosOf(s), Fetched(s))

\* the refill rule: before a read of k bytes, when offset + k >= size, the
\* offset becomes 0 and the size the unconsumed bytes plus the block size
Checked(st, k, size_chnk) ==
    IF st.offset + k >= st.size
    THEN [offset |-> 0, size |-> (st.size - st.offset) + size_chnk, n |-> st.n + 1]
    ELSE st

Consumed(st, k) == [st EXCEPT !.offset = @ + k]

\* the offset, the size and the number of refills after the reads of a line
\* header, or of the header and the bodies of the pixel record p
AfterLineHead(s) ==
    Consumed(Checked([offset |-> s.offset, size |-> s.size, n |-> 0], 4, s.size_chnk), 4)

AfterRecord(s, p) ==
    LET extra == IF p.flag > 1 THEN 2 * Len(p.pulses) ELSE 0
        body_size == Len(PixelBytes(p)) - PixelHeadLen - extra
        head == Consumed(Checked([offset |-> s.offset, size |-> s.size, n |-> 0],
                                 PixelHeadLen, s.size_chnk), PixelHeadLen)
        body == Consumed(Checked(head, body_size, s.size_chnk), body_size)
    IN  IF p.flag > 1 /\ Len(p.pulses) > 0
        THEN Consumed(Checked(body, extra, s.size_chnk), extra)
        ELSE body

(***************************************************************************)
(* C18: before the read of a line header (4 bytes), a pixel header (22), a *)
(* pixel body (body_size) and an additional-pulses body, the decoder       *)
(* refills exactly when offset + k >= size: it takes the next block, sets  *)
(* offset to 0 and size to the unconsumed bytes plus the block size.  No   *)
(* refill changes the logical stream position or a byte not yet consumed:  *)
(* after the step the unconsumed part of the buffer is the stream from the *)
(* position after the record.                                              *)
(* After a body longer than the buffer that one refill gives, offset is    *)
(* past the end of the buffer and the next refill restarts at the start of *)
(* the next block.                                                         *)
(***************************************************************************)
C18_Refill ==
    [][(dec.pc \in {"line", "pixel"} /\ dec'.pc # "error") =>
          LET e == IF dec.pc = "line" THEN AfterLineHead(dec)
                   ELSE AfterRecord(dec, hmap.lines[dec.line_cnt + 1][dec.k + 1])
          IN  /\ dec'.kblk = dec.kblk + e.n
              /\ dec'.offset = e.offset
              /\ dec'.size = e.size
              /\ Len(dec'.buffer1) - dec'.offset = Fetched(dec') - PosOf(dec')
              /\ Unconsumed(dec')]_vars

(***************************************************************************)
(* Decodes of streams with a record whose body is longer than a block: the *)
(* pulses of a flag 0 record, or the additional pulses of an               *)
(* instructively packed one.                                               *)
(***************************************************************************)
LongMaps ==
    {[height |-> h, width |-> MaxWidth - 1,
      lines |-> [y \in 1..h |-> IF y = 1 THEN <<Pixel(0, kind)>> ELSE more]] :
        h \in 1..MaxHeight, kind \in {"long", "longadd"},
        more \in MoreLines(MaxWidth - 1)}

InitLong ==
    \E m \in LongMaps, u \in BlockSizes, est \in Estimates :
        LET bytes == StreamBytes(m.height, m.width, m.lines)
            d == MkMapDisk(u + ChunkHeadLen, bytes)
            t == MapTable(Len(bytes))
            its == [i \in 1..2 |-> SFSTreeItem(d, u + ChunkHeadLen, t[i])]
        IN  /\ chunksize = u + ChunkHeadLen
            /\ disk = d
            /\ table = t
            /\ written = [layout |-> "fwd", ents |-> <<>>]
            /\ pc = "ready"
            /\ items = its
            /\ compression = "None"
            /\ paths = <<<<-1>>, <<0, -1>>>>
            /\ vfs = FlatItemsToDict(its, <<<<-1>>, <<0, -1>>>>).map
            /\ ret = NoCall
            /\ hmap = [height |-> m.height, width |-> m.width, lines |-> m.lines,
                       est |-> est, sum_max |-> SumMax(m.lines)]
            /\ call = NoCall
            /\ dec = Locals0
            /\ bcf = NoCall
            /\ thr = NoCall
            /\ fh = NoCall

SpecLong == InitLong /\ [][NextDec]_vars

\* the reads that the statements from the position of s to the next position
\* make: for each one the offset, the bytes wanted and the length of buffer1
ReadOf(s, k) == [at |-> s.offset, k |-> k, have |-> Len(s.buffer1)]

Reads(I, s) ==
    IF s.pc = "line"
    THEN LET s1 == RefillIf(I, s, 4)
         IN  IF s1.pc = "error" THEN <<>> ELSE <<ReadOf(s1, 4)>>
    ELSE IF s.pc # "pixel" THEN <<>>
    ELSE LET s1 == RefillIf(I, s, PixelHeadLen)
             h == Peek(s1, PixelHeadLen)
             flag == ULE(SubSeq(h, 13, 14))
             n_of_pulses == ULE(SubSeq(h, 17, 18))
             data_size2 == ULE(SubSeq(h, 19, 22))
             s2 == RefillIf(I, [s1 EXCEPT !.offset = @ + PixelHeadLen], data_size2)
             r == Runs(s2.buffer1, s2.offset, s2.offset + data_size2 - 4, <<>>)
             s3 == [s2 EXCEPT !.offset = r.offset]
             add_s == ULE(Peek(s3, 4))
             s4 == RefillIf(I, [s3 EXCEPT !.offset = @ + 4], add_s)
         IN  IF s1.pc = "error" THEN <<>>
             ELSE IF Len(h) < PixelHeadLen \/ s2.pc = "error" THEN <<ReadOf(s1, PixelHeadLen)>>
             ELSE IF flag <= 1 \/ n_of_pulses = 0 \/ r.err # "" \/ s4.pc = "error"
             THEN <<ReadOf(s1, PixelHeadLen), ReadOf(s2, data_size2)>>
             ELSE <<ReadOf(s1, PixelHeadLen), ReadOf(s2, data_size2), ReadOf(s4, add_s)>>

(***************************************************************************)
(* C19: whenever the decoder reads k bytes at offset (a line header, a     *)
(* pixel header, a pixel body, an additional-pulses body), the k bytes are *)
(* in the working buffer: offset + k <= len(buffer1), also for a body      *)
(* longer than a block.                                                    *)
(* The code refills once before a read, which adds one block.              *)
(***************************************************************************)
C19_BytesPresent ==
    dec.pc \in {"line", "pixel"} =>
        \A j \in 1..Len(Reads(IterData, dec)) :
            LET r == Reads(IterData, dec)[j]
            IN  r.at + r.k <= r.have

\* a stream with no record of an impossible field
WellFormed == \A i \in 1..Len(AllRecords) : ~Impossible(AllRecords[i].p)

(***************************************************************************)
(* C20: the decode of a well-formed stream asks for no block after the     *)
(* last one, also when a record ends where the working buffer ends: it     *)
(* does not end with the StopIteration of the exhausted block iterator.    *)
(* The code refills when offset + k = size as well.                        *)
(***************************************************************************)
C20_NoBlockBeyondLast ==
    (WellFormed /\ dec.pc = "error") => dec.err # "StopIteration"

(***************************************************************************)
(* Decodes of all the streams of the model: those whose records fit a      *)
(* block and those with a body longer than a block.                        *)
(***************************************************************************)
InitStreams == InitDec \/ InitLong

SpecStreams == InitStreams /\ [][NextDec]_vars

\* block k (0-based) of the entry: its part of the stream
BlockOfStream(k, size_chnk) == Slice(Stream, k * size_chnk, (k + 1) * size_chnk)

\* the blocks from number a up to, not including, number b, joined
BlocksOfStream(a, b, size_chnk) ==
    Concat([i \in 1..(b - a) |-> BlockOfStream(a + i - 1, size_chnk)])

\* the last n elements of a sequence
LastOf(q, n) == SubSeq(q, Len(q) - n + 1, Len(q))

(***************************************************************************)
(* C21: within one decode the blocks are taken from the block iterator in  *)
(* the order 0, 1, 2, ..., each one once: the first statement takes block  *)
(* 0, and a step that has taken kblk blocks before appends the blocks      *)
(* kblk, kblk + 1, ... to the working buffer and no other byte: the buffer *)
(* after the step is the end of the old buffer and these blocks.  The      *)
(* records are processed in raster order: the line counter goes up by one  *)
(* line at a time and the record counter by one record at a time within    *)
(* the line_head records of a line.                                        *)
(***************************************************************************)
C21_BlocksInOrder ==
    [][dec'.pc \in {"line", "pixel", "finish"} =>
          IF dec.pc = "start"
          THEN /\ dec'.kblk = 1
               /\ dec'.buffer1 = BlockOfStream(0, dec'.size_chnk)
               /\ dec'.line_cnt = 0 /\ dec'.k = 0
          ELSE LET new == BlocksOfStream(dec.kblk, dec'.kblk, dec.size_chnk)
               IN  /\ dec'.kblk >= dec.kblk
                   /\ dec'.kblk > dec.kblk =>
                         /\ Len(dec'.buffer1) <= Len(dec.buffer1) + Len(new)
                         /\ Len(dec'.buffer1)
                               >= Len(BlockOfStream(dec'.kblk - 1, dec.size_chnk))
                         /\ dec'.buffer1 = LastOf(dec.buffer1 \o new, Len(dec'.buffer1))
                   /\ dec'.kblk = dec.kblk => dec'.buffer1 = dec.buffer1
                   /\ dec.pc = "line" =>
                         IF dec'.pc = "pixel"
                         THEN dec'.line_cnt = dec.line_cnt /\ dec'.k = 0 /\ dec'.line_head > 0
                         ELSE dec'.line_cnt = dec.line_cnt + 1
                   /\ dec.pc = "pixel" =>
                         IF dec.k + 1 < dec.line_head
                         THEN /\ dec'.pc = "pixel"
                              /\ dec'.line_cnt = dec.line_cnt /\ dec'.k = dec.k + 1
                         ELSE /\ dec'.pc # "pixel"
                              /\ dec'.line_cnt = dec.line_cnt + 1
                   /\ dec'.pc = "finish" <=> dec'.line_cnt = dec.height
                   /\ dec'.line_cnt <= dec.height]_vars

\* a decode of two lines has returned after it took three blocks
C21_Witness ==
    /\ dec.pc = "done"
    /\ dec.kblk = 3
    /\ hmap.height = 2
    /\ hmap.lines[2] # <<>>
    /\ \E j \in 1..Len(dec.vfa) : dec.vfa[j] > 0

\* the stream position of the decoder s: where the byte buffer1[offset] is in
\* the stream, the buffer ending where the blocks taken so far end
StreamPos(s) == Fetched(s) - Len(s.buffer1) + s.offset

\* body_size of the header of record p, and the size of its additional pulses
BodySize(p) ==
    Len(PixelBytes(p)) - PixelHeadLen - (IF p.flag > 1 THEN 2 * Len(p.pulses) ELSE 0)

AddSize(p) == IF p.flag > 1 /\ Len(p.pulses) > 0 THEN 2 * Len(p.pulses) ELSE 0

(***************************************************************************)
(* C22: after a pixel record the stream position of the decoder is the     *)
(* position of the pixel header + 22 + body_size, plus the size of the     *)
(* additional pulses when flag > 1 and there are some (the last 4 bytes of *)
(* the body of a flag > 1 record without additional pulses are skipped),   *)
(* and after a line header it is the position of the line header + 4,      *)
(* wherever the refills fall: the next header is read at its position.     *)
(* After a body longer than the buffer that one refill gives, the refill   *)
(* before the next header starts the buffer at the next block and the      *)
(* header is read before its position.                                     *)
(***************************************************************************)
C22_PositionAfterRecord ==
    [][(dec.pc \in {"line", "pixel"} /\ dec'.pc # "error") =>
          StreamPos(dec') =
              IF dec.pc = "line" THEN LinePos(dec.line_cnt) + 4
              ELSE LET p == hmap.lines[dec.line_cnt + 1][dec.k + 1]
                   IN  RecPos(dec.line_cnt, dec.k) + PixelHeadLen + BodySize(p) + AddSize(p)]_vars

\* the list `pixel` after lines 1033-1138 for the record at the position of
\* s, before it is written into the array, or the exception raised
PixelOf(I, s) ==
    LET s1 == RefillIf(I, s, PixelHeadLen)
        h == Peek(s1, PixelHeadLen)
        chan1 == ULE(SubSeq(h, 5, 6))
        chan2 == ULE(SubSeq(h, 7, 8))
        flag == ULE(SubSeq(h, 13, 14))
        n_of_pulses == ULE(SubSeq(h, 17, 18))
        data_size2 == ULE(SubSeq(h, 19, 22))
        s2 == RefillIf(I, [s1 EXCEPT !.offset = @ + PixelHeadLen], data_size2)
        b == PixelBody(I, s2, chan1, chan2, flag, n_of_pulses, data_size2)
    IN  IF s1.pc = "error" THEN [err |-> s1.err, pixel |-> <<>>]
        ELSE IF Len(h) < PixelHeadLen THEN [err |-> "struct.error", pixel |-> <<>>]
        ELSE IF s2.pc = "error" THEN [err |-> s2.err, pixel |-> <<>>]
        ELSE [err |-> b.err, pixel |-> b.pixel]

\* the record at the position of the decoder
NextRecord == hmap.lines[dec.line_cnt + 1][dec.k + 1]

\* the decoder is at a record of the stream with the given flags
AtRecord(flags) == dec.pc = "pixel" /\ NextRecord.flag \in flags

(***************************************************************************)
(* C23: the histogram of a flag 0 record is the bincount of the 16-bit     *)
(* values of its body: when all values are below chan1 it has chan1        *)
(* entries, entry c is the number of values equal to c, and the entries    *)
(* sum up to body_size / 2.                                                *)
(* The code asks np.bincount for chan1 - 1 entries at least, so the        *)
(* histogram of a record without a pulse in the last channel has           *)
(* chan1 - 1 entries.                                                      *)
(***************************************************************************)
C23_Flag0Histogram ==
    (AtRecord({0}) /\ PixelOf(IterData, dec).err = "") =>
        LET p == NextRecord
            pixel == PixelOf(IterData, dec).pixel
        IN  /\ (\A j \in 1..Len(p.pulses) : p.pulses[j] < p.chan1) => Len(pixel) = p.chan1
            /\ \A c \in 1..Len(pixel) :
                  pixel[c] = Cardinality({j \in 1..Len(p.pulses) : p.pulses[j] = c - 1})
            /\ SumSeq(pixel) = BodySize(p) \div 2

(***************************************************************************)
(* The body of one pixel record on its own, lines 1060-1138: the image of  *)
(* the specification is a record, the working buffer holds the bytes of    *)
(* the record and the block iterator is not needed.                        *)
(***************************************************************************)
MaxPacked == 4      \* the pulses of a 12-bit packed record
MaxRuns == 2        \* the runs of an instructively packed record

\* 12-bit pulse channels with bits in every nibble
Channels12 == {0, 1, 2748, 4095}

\* sequences of 1..n elements of the set S
RECURSIVE SeqsUpTo(_, _)
SeqsUpTo(S, n) ==
    IF n = 0 THEN {}
    ELSE {<<x>> : x \in S}
         \cup {Append(q, x) : q \in SeqsUpTo(S, n - 1), x \in S}

PackedRecords ==
    {[x |-> 0, chan1 |-> 4096, chan2 |-> 0, flag |-> 1, pulses |-> q, runs |-> <<>>] :
        q \in SeqsUpTo(Channels12, MaxPacked)}

\* runs of every width: zeros, nibbles, and values of 1, 2 and 4 bytes
RunSet ==
    {[size_p |-> 0, gain |-> 0, vals |-> Zeros(n)] : n \in {1, 4}}
    \cup {[size_p |-> 1, gain |-> g, vals |-> v] : g \in {0, 3}, v \in {<<0, 15>>, <<1, 2, 3>>}}
    \cup {[size_p |-> 2, gain |-> 300, vals |-> <<255, 0>>],
          [size_p |-> 4, gain |-> 16, vals |-> <<1, 2, 3>>],
          [size_p |-> 4, gain |-> 70000, vals |-> <<65535>>],
          [size_p |-> 8, gain |-> 1, vals |-> <<100000>>]}

\* the values that a sequence of runs stands for
RunsCounts(runs) == Concat([j \in 1..Len(runs) |-> RunCounts(runs[j])])

\* instructively packed records: chan2 values in the runs, a capacity of
\* chan2 or more, no additional pulses or some, one channel more than once
RunRecords ==
    UNION {
        {[x |-> 0, chan1 |-> Len(RunsCounts(runs)) + rest, chan2 |-> Len(RunsCounts(runs)),
          flag |-> 2, pulses |-> add, runs |-> runs] :
            rest \in {0, 2},
            add \in {<<>>, <<0>>, <<0, 0>>}
                    \cup (IF Len(RunsCounts(runs)) >= 2 THEN {<<1, 0, 1>>} ELSE {})}
        : runs \in SeqsUpTo(RunSet, MaxRuns)}

InitPixel ==
    \E p \in PackedRecords \cup RunRecords :
        /\ chunksize = 0
        /\ disk = <<>>
        /\ table = <<>>
        /\ written = [layout |-> "fwd", ents |-> <<>>]
        /\ pc = "ready"
        /\ items = <<>>
        /\ compression = "None"
        /\ paths = <<>>
        /\ vfs = EmptyMap
        /\ ret = NoCall
        /\ hmap = [height |-> 1, width |-> 1, lines |-> <<<<p>>>>]
        /\ call = NoCall
        /\ dec = NoCall
        /\ bcf = NoCall
        /\ thr = NoCall
        /\ fh = NoCall

\* lines 1050-1138 for a record that lies whole in the working buffer: the
\* header is unpacked, the body is decoded into the list `pixel`; exp16 is
\* the array of lines 1079-1082 of a 12-bit packed record
DecodeBody ==
    /\ call = NoCall
    /\ LET bytes == PixelBytes(hmap.lines[1][1])
           h == Slice(bytes, 0, PixelHeadLen)
           chan1 == ULE(SubSeq(h, 5, 6))
           chan2 == ULE(SubSeq(h, 7, 8))
           flag == ULE(SubSeq(h, 13, 14))
           n_of_pulses == ULE(SubSeq(h, 17, 18))
           data_size2 == ULE(SubSeq(h, 19, 22))
           s == [Locals0 EXCEPT !.buffer1 = bytes, !.offset = PixelHeadLen,
                                !.size = Len(bytes) + 1, !.size_chnk = Len(bytes) + 1]
           b == PixelBody(NoCall, s, chan1, chan2, flag, n_of_pulses, data_size2)
       IN  /\ call' = [op |-> "pixel", flag |-> flag, data_size2 |-> data_size2]
           /\ dec' = [op |-> "pixel", err |-> b.err, offset |-> b.s.offset,
                      pixel |-> b.pixel,
                      exp16 |-> IF flag = 1 /\ b.err = ""
                                THEN Unpack12(Peek(s, data_size2), n_of_pulses)
                                ELSE <<>>]
    /\ UNCHANGED <<bcfvars, sfsvars, hmap>>

NextPixel == DecodeBody

SpecPixel == InitPixel /\ [][NextPixel]_vars

\* the record of the image, once its body is decoded
BodyDecoded(flags) ==
    call # NoCall /\ call.op = "pixel" /\ call.flag \in flags /\ dec.err = ""

BodyRecord == hmap.lines[1][1]

\* the bytes of the body of the record of the image
BodyBytes == Slice(PixelBytes(BodyRecord), PixelHeadLen, PixelHeadLen + call.data_size2)

\* the bytes of the body with the two bytes of every 16-bit word swapped
SwappedBody == [j \in 1..Len(BodyBytes) |->
                   IF j % 2 = 1 THEN BodyBytes[j + 1] ELSE BodyBytes[j - 1]]

\* value i (0-based) of the swapped bytes B when every byte is repeated, the
\* positions 0 and 5 of every 6 are dropped and the rest is read as
\* big-endian 16-bit values: three bytes b0 b1 b2 give b0 b1 and b1 b2; the
\* values of even index are shifted right by 4, all are cut to 12 bits
Value12(B, i) ==
    LET g == i \div 2
    IN  IF i % 2 = 0 THEN ((B[3 * g + 1] * 256 + B[3 * g + 2]) \div 16) % 4096
        ELSE (B[3 * g + 2] * 256 + B[3 * g + 3]) % 4096

(***************************************************************************)
(* C24: a flag 1 record gives exactly n_of_pulses values, each in          *)
(* [0, 4096): the bytes of every 16-bit word of the body are swapped,      *)
(* every byte of the result is repeated, the bytes at the positions 0 and  *)
(* 5 of every 6 are dropped, the rest is read as big-endian 16-bit values, *)
(* the values of even index are shifted right by 4 and every value is      *)
(* masked with 0x0FFF.  These are the pulses that were packed, two in      *)
(* three bytes.                                                            *)
(***************************************************************************)
C24_Unpack12Bit ==
    BodyDecoded({1}) =>
        /\ Len(dec.exp16) = Len(BodyRecord.pulses)
        /\ \A j \in 1..Len(dec.exp16) :
              /\ dec.exp16[j] \in 0..4095
              /\ dec.exp16[j] = Value12(SwappedBody, j - 1)
        /\ dec.exp16 = BodyRecord.pulses

\* four pulses with bits in every nibble have been unpacked
C24_Witness ==
    /\ BodyDecoded({1})
    /\ Len(dec.exp16) = MaxPacked
    /\ dec.exp16[1] = 2748 /\ dec.exp16[2] = 4095
    /\ dec.exp16[3] = 4095 /\ dec.exp16[4] = 2748

\* C24 as stated: the positions 0 and 5 of every 6 bytes are dropped from
\* the swapped bytes themselves
C24_DropFromSwapped ==
    BodyDecoded({1}) =>
        dec.exp16 = Unpack12NoRepeat(BodyBytes, Len(BodyRecord.pulses))

\* the bytes of a run with the header (size_p, n): the header, then nothing
\* for size_p = 0, a gain of 1 byte and ceil(n / 2) bytes of nibbles for
\* size_p = 1, else a gain of size_p bytes and n values of size_p / 2 bytes
RunLen(r) ==
    2 + (IF r.size_p = 0 THEN 0
         ELSE IF r.size_p = 1 THEN 1 + CeilDiv(Len(r.vals), 2)
         ELSE r.size_p + Len(r.vals) * (r.size_p \div 2))

\* the values that the runs of the decoded record gave: the first chan2
\* entries of the histogram, less the additional pulses
Emitted ==
    [c \in 1..Min(BodyRecord.chan2, Len(dec.pixel)) |->
        dec.pixel[c] - Cardinality({j \in 1..Len(BodyRecord.pulses) :
                                       BodyRecord.pulses[j] = c - 1})]

(***************************************************************************)
(* C25: a run with the header (size_p, n) of a flag > 1 record emits n     *)
(* zeros for size_p = 0; for size_p = 1 it reads a gain of 1 byte and      *)
(* ceil(n / 2) bytes, every byte b giving (b & 0x0F) + gain and then       *)
(* (b >> 4) + gain, of which the first n are kept; otherwise it reads a    *)
(* gain of size_p bytes, unsigned little-endian, and n values of           *)
(* size_p / 2 bytes, each emitted as value + gain.  The runs of a record   *)
(* are read one after the other up to the last 4 bytes of the body.        *)
(***************************************************************************)
C25_RunValues ==
    BodyDecoded({2}) =>
        LET runs == BodyRecord.runs
        IN  /\ Emitted = Concat([j \in 1..Len(runs) |->
                                   [i \in 1..Len(runs[j].vals) |->
                                       IF runs[j].size_p = 0 THEN 0
                                       ELSE runs[j].vals[i] + runs[j].gain]])
            /\ call.data_size2 = SumSeq([j \in 1..Len(runs) |-> RunLen(runs[j])]) + 4
            /\ dec.offset = PixelHeadLen + call.data_size2 + AddSize(BodyRecord)

\* a run of three 2-byte values with the gain 0x10 and a run of four zeros
\* have been decoded
C25_Witness ==
    /\ BodyDecoded({2})
    /\ Len(BodyRecord.runs) = 2
    /\ BodyRecord.runs[1].size_p = 4 /\ BodyRecord.runs[2].size_p = 0
    /\ BodyRecord.pulses = <<>>
    /\ Emitted = <<17, 18, 19, 0, 0, 0, 0>>

\* C25 as stated: the gain of a run with size_p >= 2 is size_p / 2 bytes
C25_GainOfByteWidth ==
    BodyDecoded({2}) =>
        Emitted = RunsGainHalf(BodyBytes, 0, call.data_size2 - 4, <<>>).pixel

(***************************************************************************)
(* C26: for a flag > 1 record whose runs emit chan2 values, the histogram  *)
(* after the run loop is padded with zeros on the right to chan1 entries   *)
(* when chan2 < chan1; then every additional pulse adds 1 to the entry of  *)
(* its channel, a channel named n times gaining n, and no other entry      *)
(* changes.                                                                *)
(***************************************************************************)
C26_PadAndAddPulses ==
    BodyDecoded({2}) =>
        LET p == BodyRecord
            counts == RunsCounts(p.runs)
        IN  /\ Len(counts) = p.chan2
            /\ Len(dec.pixel) = IF p.chan2 < p.chan1 THEN p.chan1 ELSE p.chan2
            /\ \A c \in 1..Len(dec.pixel) :
                  dec.pixel[c] =
                      (IF c <= p.chan2 THEN counts[c] ELSE 0)
                      + Cardinality({j \in 1..Len(p.pulses) : p.pulses[j] = c - 1})

\* a padded histogram has received three additional pulses, two of them in
\* one channel
C26_Witness ==
    /\ BodyDecoded({2})
    /\ BodyRecord.chan2 < BodyRecord.chan1
    /\ BodyRecord.pulses = <<1, 0, 1>>
    /\ Len(dec.pixel) = BodyRecord.chan1
    /\ dec.pixel[2] = RunsCounts(BodyRecord.runs)[2] + 2
    /\ dec.pixel[BodyRecord.chan1] = 0

\* the channels that the write of record p into the array of the decoder s
\* covers
WrittenChannels(s, p) == 0..(Min(p.chan1, s.max_chan) - 1)

(***************************************************************************)
(* C27: the decode of one pixel record at (y, x) changes the array only in *)
(* the channels [0, min(chan1, C)) of the cell (y div d, x div d), chan1   *)
(* being the capacity of the pixel header: every other channel of the cell *)
(* and every other cell keep their values, and the array keeps its length. *)
(* The histogram is cut to these channels when it is written: the channels *)
(* below C hold the counts of the record also when the record has pulses   *)
(* in channels from C on.                                                  *)
(***************************************************************************)
C27_WriteFrame ==
    [][(dec.pc = "pixel" /\ dec'.pc # "error") =>
          LET p == NextRecord
              d == dec.dwn_factor
              target == <<dec.line_cnt \div d, p.x \div d>>
          IN  /\ Len(dec'.vfa) = Len(dec.vfa)
              /\ dec'.shape = dec.shape
              /\ \A cell \in Cells(dec), c \in Channels(dec) :
                    (cell # target \/ c \notin WrittenChannels(dec, p)) =>
                        Cell(dec', cell[1], cell[2], c) = Cell(dec, cell[1], cell[2], c)
              /\ \A c \in WrittenChannels(dec, p) :
                    Cell(dec', target[1], target[2], c) =
                        Wrap((IF d > 1 THEN Cell(dec, target[1], target[2], c) ELSE 0)
                             + Hist(p, c), dec.depth.bits)]_vars

\* an array of fewer channels than the capacity and of more than one cell
\* has received a record with pulses in the last channel of the capacity
C27_Witness ==
    /\ dec.pc = "done"
    /\ dec.max_chan < Cap
    /\ Cardinality(Cells(dec)) > 1
    /\ Len(AllRecords) = 1
    /\ Hist(AllRecords[1].p, Cap - 1) > 0
    /\ \E c \in Channels(dec) :
          Cell(dec, AllRecords[1].y \div dec.dwn_factor,
               AllRecords[1].p.x \div dec.dwn_factor, c) > 0

\* C27 as stated: only the channels [0, min(chan2, C)) of the cell change,
\* chan2 being the number of channels used by the pixel
C27_UsedChannels ==
    [][(dec.pc = "pixel" /\ dec'.pc # "error") =>
          LET p == NextRecord
              d == dec.dwn_factor
              target == <<dec.line_cnt \div d, p.x \div d>>
          IN  \A cell \in Cells(dec), c \in Channels(dec) :
                  (cell # target \/ c >= Min(p.chan2, dec.max_chan)) =>
                      Cell(dec', cell[1], cell[2], c) = Cell(dec, cell[1], cell[2], c)]_vars


(***************************************************************************)
(* The entry tables in any order: what _flat_items_to_dict makes of them.  *)
(***************************************************************************)
\* '/'.join(comps) for names that are sequences of characters
RECURSIVE JoinPath(_)
JoinPath(comps) ==
    IF Len(comps) = 0 THEN <<>>
    ELSE IF Len(comps) = 1 THEN comps[1]
    ELSE comps[1] \o <<"/">> \o JoinPath(Tail(comps))

\* a child entry stands before the entry of its parent directory
ChildFirst(ents) ==
    \E i \in 1..Len(ents) : ents[i].parent # -1 /\ ents[i].parent + 1 > i

(***************************************************************************)
(* C28: after the construction every file entry of the entry table is      *)
(* returned by get_file for the path made of the names of its ancestor     *)
(* directories, root-most first, followed by its own name, whatever the    *)
(* order of the table, a child standing before its parent directory        *)
(* included.  The code sets dir_pointer[name] = {} for a directory entry   *)
(* also when the directory was already made for a child that came first.   *)
(***************************************************************************)
C28_EveryFileReturned ==
    ret.op = "get_file" =>
        \A i \in Files :
            ret.path = JoinPath(TruePath(written.ents, i)) =>
                /\ ret.err = ""
                /\ ret.node = [kind |-> "file", idx |-> i]


(***************************************************************************)
(* The construction over the entry tables a container file can hold: the   *)
(* parent field of an entry is any index of the table or -1, so the links *)
(* may form a cycle or name the entry itself.                              *)
(***************************************************************************)
AnyShapes(n) == [1..n -> [is_dir : BOOLEAN, parent : -1..(n - 1)]]

\* every file holds one chunk and a byte, no file is compressed
AnyTables(cs) ==
    UNION {{[i \in 1..n |-> [is_dir |-> sh[i].is_dir, parent |-> sh[i].parent,
                             name |-> <<NameChars[i]>>,
                             size |-> IF sh[i].is_dir THEN 0 ELSE Usable(cs) + 1,
                             aacs |-> FALSE]] : sh \in AnyShapes(n)} : n \in 1..MaxItems}

InitTree ==
    \E cs \in ChunkSizes, layout \in {"fwd", "rev"} :
      \E ents \in AnyTables(cs) :
        /\ chunksize = cs
        /\ disk = MkDisk(cs, layout, ents)
        /\ table = MkTable(cs, layout, ents)
        /\ written = [layout |-> layout, ents |-> ents]
        /\ pc = "start"
        /\ items = <<>>
        /\ compression = "unset"
        /\ paths = <<>>
        /\ vfs = EmptyMap
        /\ ret = NoCall
        /\ hmap = NoMap
        /\ call = NoCall
        /\ dec = NoCall
        /\ bcf = NoCall
        /\ thr = NoCall
        /\ fh = NoCall

\* SFS_reader.__init__ calling _setup_vfs
NextTree ==
    \/ ReadTree
    \/ SetupCompression
    \/ ResolvePass
    \/ BuildTree

\* _setup_vfs is the straight-line code of the one thread that constructs the
\* reader: a step that can be taken is taken
SpecTree == InitTree /\ [][NextTree]_vars /\ WF_vars(NextTree)

(***************************************************************************)
(* C29: tree assembly terminates for every entry table read from a         *)
(* container file: the path-resolution loop ends after finitely many       *)
(* passes with every entry's ancestor chain ending at the root (-1), also  *)
(* when the parent links form a cycle or an entry is its own parent.       *)
(* The code extends the path of an entry on a cycle at every pass and      *)
(* never finds -1 at its end.                                              *)
(***************************************************************************)
C29_AssemblyTerminates ==
    (pc = "resolve") ~> (pc # "resolve" /\ AllResolved(paths))

====
